---------------------------- MODULE Spec2Model ----------------------------
(***************************************************************************)
(* A model of the MIPS assembler-simulator: Memory, RegisterFile, CPU,     *)
(* Machine (cursors, symbol table, fixup lists), Parser and the            *)
(* Interpreter's REPL loop.                                                 *)
(*                                                                         *)
(* 32-bit values.  TLC's integers are 32-bit signed, so every uint32_t of  *)
(* the program is held as the int32_t with the same bit pattern            *)
(* (static_cast<int32_t>): 0 .. 2^31-1 stand for themselves and            *)
(* 2^31 .. 2^32-1 are held as the negative numbers -2^31 .. -1.  Hi16/Lo16 *)
(* take such a value apart into its two unsigned 16-bit halves and W32     *)
(* puts one together, so that shifts, masks and wrap-around sums are       *)
(* computed on the bits the program computes them on.                      *)
(***************************************************************************)
EXTENDS Integers, Sequences, FiniteSets, TLC

\* ------------------------------------------------------------------------
\* Bounds of the model
\* ------------------------------------------------------------------------
\* The REPL accepts assembly lines while the program history is shorter
\* than this.
MaxProgram == 3

\* the same bound in the sessions of HaltSpec
MaxHalt == 4
\* Stands for max_steps = 1000000 of run_program, scaled down: the cap on
\* the steps of one `run`.
StepCap == 8
\* the longest line handed to the lexer
MaxLine == 3

\* the lines of Lines typed in the general sessions (the further lines are
\* those of the assembler sessions)
SessionLines == 10

\* words left in the text segment at the start of a nearly full session
FreeWords == 2

\* ------------------------------------------------------------------------
\* Constants.h
\* ------------------------------------------------------------------------
OP_RTYPE == 0
OP_REGIMM == 1
OP_J == 2
OP_JAL == 3
OP_BEQ == 4
OP_BNE == 5
OP_BLEZ == 6
OP_BGTZ == 7
OP_ADDI == 8
OP_ADDIU == 9
OP_SLTI == 10
OP_SLTIU == 11
OP_ANDI == 12
OP_ORI == 13
OP_XORI == 14
OP_LUI == 15
OP_LB == 32
OP_LH == 33
OP_LW == 35
OP_LBU == 36
OP_LHU == 37
OP_SB == 40
OP_SH == 41
OP_SW == 43

FUNCT_NONE == 0
FUNCT_SLL == 0
FUNCT_SRL == 2
FUNCT_SRA == 3
FUNCT_SLLV == 4
FUNCT_SRLV == 6
FUNCT_SRAV == 7
FUNCT_JR == 8
FUNCT_JALR == 9
FUNCT_SYSCALL == 12
FUNCT_MFHI == 16
FUNCT_MTHI == 17
FUNCT_MFLO == 18
FUNCT_MTLO == 19
FUNCT_MULT == 24
FUNCT_MULTU == 25
FUNCT_DIV == 26
FUNCT_DIVU == 27
FUNCT_ADD == 32
FUNCT_ADDU == 33
FUNCT_SUB == 34
FUNCT_SUBU == 35
FUNCT_AND == 36
FUNCT_OR == 37
FUNCT_XOR == 38
FUNCT_NOR == 39
FUNCT_SEQ == 40
FUNCT_SLT == 42
FUNCT_SLTU == 43

RT_BLTZ == 0
RT_BGEZ == 1

\* 0x00400000, 0x10000000, 0x10040000, 0x7fffeffc
TEXT_BASE == 4194304
TEXT_LIMIT == 268435456
DATA_BASE == 268435456
DATA_LIMIT == 268697600
STACK_BASE == DATA_LIMIT
STACK_INIT == 2147479548

INT32_MAX == 2147483647
INT32_MIN == (-2147483647) - 1
\* STACK_LIMIT = 0x80000000 is 2^31: as an unsigned bound it is "one past
\* INT32_MAX"; addr < STACK_LIMIT is addr <= INT32_MAX on the unsigned value.

\* ------------------------------------------------------------------------
\* 32-bit words held as int32
\* ------------------------------------------------------------------------
\* bits 31..16 and 15..0 of w, each as a number 0 .. 65535
Hi16(w) == IF w >= 0 THEN w \div 65536 ELSE 32768 + ((w - INT32_MIN) \div 65536)
Lo16(w) == IF w >= 0 THEN w % 65536 ELSE (w - INT32_MIN) % 65536

\* the word whose halves are hi and lo (both 0 .. 65535)
W32(hi, lo) ==
    IF hi < 32768 THEN hi * 65536 + lo
    ELSE INT32_MIN + ((hi - 32768) * 65536 + lo)

\* unsigned a < b
ULT(a, b) == IF (a < 0) = (b < 0) THEN a < b ELSE b < 0

\* (a + b) mod 2^32
Add32(a, b) ==
    LET lo == Lo16(a) + Lo16(b)
        hi == Hi16(a) + Hi16(b) + (lo \div 65536)
    IN  W32(hi % 65536, lo % 65536)

\* ~a
Not32(a) == (-1) - a

\* (a - b) mod 2^32
Sub32(a, b) == Add32(Add32(a, Not32(b)), 1)

\* static_cast<int16_t>(imm) widened to 32 bits, imm in 0 .. 65535
SignExt16(imm) == IF imm < 32768 THEN imm ELSE imm - 65536

\* the byte as it is
SignExt8_zero_extended(b) == b
\* static_cast<int8_t>(b) widened to 32 bits, b in 0 .. 255
SignExt8(b) == IF b < 128 THEN b ELSE b - 256

\* bitwise operators on numbers 0 .. 2^n - 1
RECURSIVE BitAnd(_, _)
BitAnd(x, y) ==
    IF x = 0 \/ y = 0 THEN 0
    ELSE ((x % 2) * (y % 2)) + 2 * BitAnd(x \div 2, y \div 2)

RECURSIVE BitOr(_, _)
BitOr(x, y) ==
    IF x = 0 THEN y
    ELSE IF y = 0 THEN x
    ELSE (IF x % 2 = 1 \/ y % 2 = 1 THEN 1 ELSE 0) + 2 * BitOr(x \div 2, y \div 2)

RECURSIVE BitXor(_, _)
BitXor(x, y) ==
    IF x = 0 THEN y
    ELSE IF y = 0 THEN x
    ELSE (IF (x % 2) # (y % 2) THEN 1 ELSE 0) + 2 * BitXor(x \div 2, y \div 2)

And32(a, b) == W32(BitAnd(Hi16(a), Hi16(b)), BitAnd(Lo16(a), Lo16(b)))
Or32(a, b) == W32(BitOr(Hi16(a), Hi16(b)), BitOr(Lo16(a), Lo16(b)))
Xor32(a, b) == W32(BitXor(Hi16(a), Hi16(b)), BitXor(Lo16(a), Lo16(b)))

RECURSIVE Pow2(_)
Pow2(n) == IF n = 0 THEN 1 ELSE 2 * Pow2(n - 1)

\* the fields of an instruction word, as CPU::execute extracts them
FieldOpcode(word) == Hi16(word) \div 1024
FieldRs(word) == (Hi16(word) \div 32) % 32
FieldRt(word) == Hi16(word) % 32
FieldRd(word) == Lo16(word) \div 2048
FieldShamt(word) == (Lo16(word) \div 64) % 32
FieldFunct(word) == Lo16(word) % 64
FieldImm(word) == Lo16(word)
FieldTarget(word) == (Hi16(word) % 1024) * 65536 + Lo16(word)

\* rs and rt in each other's place
EncodeI_swapped(op, rs, rt, imm16) == W32(op * 1024 + rt * 32 + rs, imm16)
\* (op << 26) | (rs << 21) | (rt << 16) | imm16
EncodeI(op, rs, rt, imm16) == W32(op * 1024 + rs * 32 + rt, imm16)
\* (op << 26) | (rs << 21) | (rt << 16) | (rd << 11) | (shamt << 6) | funct
EncodeR(op, rs, rt, rd, shamt, funct) ==
    W32(op * 1024 + rs * 32 + rt, rd * 2048 + shamt * 64 + funct)
\* (op << 26) | target_field, target_field in 0 .. 2^26 - 1
EncodeJ(op, target_field) ==
    W32(op * 1024 + (target_field \div 65536), target_field % 65536)


\* ------------------------------------------------------------------------
\* Memory.h: a sparse map from address to byte.  A thrown exception is the
\* err field of the result ("" when nothing is thrown).
\* ------------------------------------------------------------------------
is_text(addr) == addr >= TEXT_BASE /\ addr < TEXT_LIMIT
is_data(addr) == addr >= DATA_BASE /\ addr < DATA_LIMIT
\* a stack with no upper limit
is_stack_unbounded(addr) == addr >= STACK_BASE \/ addr < 0
\* addr < STACK_LIMIT = 2^31 holds of exactly the non-negative int32 values
is_stack(addr) == addr >= STACK_BASE /\ addr <= INT32_MAX
is_valid_address(addr) == is_text(addr) \/ is_data(addr) \/ is_stack(addr)

EmptyMem == [a \in {} |-> 0]

load8(m, addr) ==
    IF ~is_valid_address(addr)
    THEN [err |-> "Memory load8: address out of bounds", val |-> 0]
    ELSE [err |-> "", val |-> IF addr \in DOMAIN m THEN m[addr] ELSE 0]

store8(m, addr, val) ==
    IF ~is_valid_address(addr)
    THEN [err |-> "Memory store8: address out of bounds", mem |-> m]
    ELSE [err |-> "",
          mem |-> [a \in (DOMAIN m) \cup {addr} |-> IF a = addr THEN val ELSE m[a]]]

\* big-endian; an aligned address is at most 2^31 - 4, so addr + 3 does not wrap
load32(m, addr) ==
    IF addr % 4 # 0
    THEN [err |-> "Memory load32: unaligned address", val |-> 0]
    ELSE IF ~is_valid_address(addr) \/ ~is_valid_address(addr + 1)
            \/ ~is_valid_address(addr + 2) \/ ~is_valid_address(addr + 3)
    THEN [err |-> "Memory load32: address out of bounds", val |-> 0]
    ELSE [err |-> "",
          val |-> W32(load8(m, addr).val * 256 + load8(m, addr + 1).val,
                      load8(m, addr + 2).val * 256 + load8(m, addr + 3).val)]

\* the bytes in the opposite order
store32_little_endian(m, addr, val) ==
    IF addr % 4 # 0
    THEN [err |-> "Memory store32: unaligned address", mem |-> m]
    ELSE IF ~is_valid_address(addr + 3)
    THEN [err |-> "Memory store32: address out of bounds", mem |-> m]
    ELSE store8(store8(store8(store8(m, addr, Lo16(val) % 256).mem,
                              addr + 1, Lo16(val) \div 256).mem,
                       addr + 2, Hi16(val) % 256).mem,
                addr + 3, Hi16(val) \div 256)

store32(m, addr, val) ==
    IF addr % 4 # 0
    THEN [err |-> "Memory store32: unaligned address", mem |-> m]
    ELSE IF ~is_valid_address(addr + 3)
    THEN [err |-> "Memory store32: address out of bounds", mem |-> m]
    ELSE LET s0 == store8(m, addr, Hi16(val) \div 256)
             s1 == store8(s0.mem, addr + 1, Hi16(val) % 256)
             s2 == store8(s1.mem, addr + 2, Lo16(val) \div 256)
             s3 == store8(s2.mem, addr + 3, Lo16(val) % 256)
         IN  IF s0.err # "" THEN s0
             ELSE IF s1.err # "" THEN s1
             ELSE IF s2.err # "" THEN s2
             ELSE s3

\* ------------------------------------------------------------------------
\* RegisterFile.h
\* ------------------------------------------------------------------------
RegIdx == 0 .. 31

\* RegisterFile::reset: every register, hi and lo are 0
ResetRegs == [i \in RegIdx |-> 0]

readU(x, i) == x[i]

\* writing register 0 is silently dropped
\* writeU without its test of the register number
writeU_unguarded(x, i, v) == [x EXCEPT ![i] = v]

writeU(x, i, v) == IF i # 0 THEN [x EXCEPT ![i] = v] ELSE x

\* ------------------------------------------------------------------------
\* Shifts of 32-bit words (n in 0 .. 31)
\* ------------------------------------------------------------------------
\* w << n
Shl32(w, n) ==
    IF n >= 16
    THEN W32((Lo16(w) * Pow2(n - 16)) % 65536, 0)
    ELSE W32((Hi16(w) * Pow2(n) + ((Lo16(w) * Pow2(n)) \div 65536)) % 65536,
             (Lo16(w) * Pow2(n)) % 65536)

\* w >> n on the unsigned value
Srl32(w, n) ==
    IF n >= 16
    THEN W32(0, Hi16(w) \div Pow2(n - 16))
    ELSE W32(Hi16(w) \div Pow2(n),
             (Hi16(w) % Pow2(n)) * Pow2(16 - n) + (Lo16(w) \div Pow2(n)))

\* w >> n on the signed value (sign-propagating)
Sra32(w, n) ==
    IF n = 31 THEN (IF w < 0 THEN -1 ELSE 0) ELSE w \div Pow2(n)

\* ------------------------------------------------------------------------
\* CPU.h.  The CPU state is the record
\*   [regs, hi, lo, pc, halted, mem, err]
\* where err is the message of the exception thrown ("" for none); the
\* other fields are the state the throw leaves behind.
\* ------------------------------------------------------------------------
Trap(c, msg) == [c EXCEPT !.err = msg]
WriteReg(c, i, v) == [c EXCEPT !.regs = writeU(c.regs, i, v)]

\* the signal of a faulting integer division: no C++ exception, the process
\* is killed
SIGFPE == "SIGFPE"

\* a test of the operands' signs alone
AddOverflows_same_sign(a, b) == (a >= 0) = (b >= 0)

\* int64 a + b leaves the int32 range
AddOverflows(a, b) ==
    \/ a >= 0 /\ b >= 0 /\ a > INT32_MAX - b
    \/ a < 0 /\ b < 0 /\ a < INT32_MIN - b

\* syscall 4: the byte scan from addr throws iff it reaches an invalid
\* address before a zero byte
RECURSIVE PrintStringErr(_, _)
PrintStringErr(m, addr) ==
    LET b == load8(m, addr)
    IN  IF b.err # "" THEN b.err
        ELSE IF b.val = 0 THEN ""
        ELSE PrintStringErr(m, Add32(addr, 1))

\* syscall 8: mem.store8(addr++, line[i]) for each byte, in order
RECURSIVE StoreBytes(_, _, _)
StoreBytes(m, addr, bytes) ==
    IF bytes = <<>> THEN [err |-> "", mem |-> m, addr |-> addr]
    ELSE LET s == store8(m, addr, Head(bytes))
         IN  IF s.err # "" THEN [err |-> s.err, mem |-> s.mem, addr |-> addr]
             ELSE StoreBytes(s.mem, Add32(addr, 1), Tail(bytes))

\* case FUNCT_SYSCALL; inp is what the console supplies to a reading service
Syscall(c, inp) ==
    LET service_code == readU(c.regs, 2)
    IN  CASE service_code = 1 -> c
          [] service_code = 4 ->
                LET e == PrintStringErr(c.mem, readU(c.regs, 4))
                IN  IF e # "" THEN Trap(c, e) ELSE c
          [] service_code = 5 -> WriteReg(c, 2, inp.int)
          [] service_code = 8 ->
                LET buf_addr == readU(c.regs, 4)
                    max_len == readU(c.regs, 5)
                    line == IF max_len >= 0 /\ Len(inp.str) >= max_len
                            THEN SubSeq(inp.str, 1, max_len - 1)
                            ELSE inp.str
                    body == StoreBytes(c.mem, buf_addr, line)
                    nul == store8(body.mem, body.addr, 0)
                IN  IF max_len = 0 THEN c
                    ELSE IF body.err # ""
                    THEN [c EXCEPT !.mem = body.mem, !.err = body.err]
                    ELSE [c EXCEPT !.mem = nul.mem, !.err = nul.err]
          [] service_code = 10 -> [c EXCEPT !.halted = TRUE]
          [] service_code = 11 -> c
          [] service_code = 12 -> WriteReg(c, 2, inp.ch)
          [] OTHER -> Trap(c, "Unknown or unimplemented syscall code in $v0")

\* ------------------------------------------------------------------------
\* 32 x 32 -> 64 multiplication and 32-bit division, on byte limbs so that
\* no intermediate value leaves TLC's integers
\* ------------------------------------------------------------------------
Limbs(w) == <<Lo16(w) % 256, Lo16(w) \div 256, Hi16(w) % 256, Hi16(w) \div 256>>

\* the 8 limbs of the schoolbook product of two 4-limb numbers, least
\* significant first; Term(i) is limb i of x times limb k - i of y
RECURSIVE MulLimbs(_, _, _, _)
MulLimbs(x, y, k, carry) ==
    IF k = 8 THEN <<>>
    ELSE LET Term(i) == IF k - i >= 0 /\ k - i <= 3 THEN x[i + 1] * y[k - i + 1] ELSE 0
             s == Term(0) + Term(1) + Term(2) + Term(3) + carry
         IN  <<s % 256>> \o MulLimbs(x, y, k + 1, s \div 256)

\* uint64 product of the unsigned values, as [hi, lo]
MulU64(a, b) ==
    LET d == MulLimbs(Limbs(a), Limbs(b), 0, 0)
    IN  [hi |-> W32(d[8] * 256 + d[7], d[6] * 256 + d[5]),
         lo |-> W32(d[4] * 256 + d[3], d[2] * 256 + d[1])]

\* int64 product of the signed values, as [hi, lo]
MulS64(a, b) ==
    LET u == MulU64(a, b)
        h1 == IF a < 0 THEN Sub32(u.hi, b) ELSE u.hi
        h2 == IF b < 0 THEN Sub32(h1, a) ELSE h1
    IN  [hi |-> h2, lo |-> u.lo]

\* unsigned long division, bit i of a downwards; q and r are the quotient
\* and remainder so far
RECURSIVE DivUStep(_, _, _, _, _)
DivUStep(a, b, i, q, r) ==
    IF i < 0 THEN [q |-> q, r |-> r]
    ELSE LET bit == Lo16(Srl32(a, i)) % 2
             r2 == Add32(Shl32(r, 1), bit)
             take == r < 0 \/ ~ULT(r2, b)
         IN  DivUStep(a, b, i - 1,
                      Add32(Shl32(q, 1), IF take THEN 1 ELSE 0),
                      IF take THEN Sub32(r2, b) ELSE r2)

\* a / b and a % b on int32 (truncating), b > 0
DivTruncPos(a, b) ==
    IF a < 0 /\ a % b # 0
    THEN [q |-> (a \div b) + 1, r |-> (a % b) - b]
    ELSE [q |-> a \div b, r |-> a % b]

\* a / b and a % b on int32, b # 0.  INT32_MIN / -1 is undefined in C++
\* (undef marks it): the build's division either wraps to INT32_MIN with
\* remainder 0 or faults.
DivS32(a, b) ==
    IF b > 0 THEN [undef |-> FALSE, q |-> DivTruncPos(a, b).q, r |-> DivTruncPos(a, b).r]
    ELSE IF b = INT32_MIN
    THEN [undef |-> FALSE, q |-> IF a = INT32_MIN THEN 1 ELSE 0,
          r |-> IF a = INT32_MIN THEN 0 ELSE a]
    ELSE IF a = INT32_MIN /\ b = -1 THEN [undef |-> TRUE, q |-> 0, r |-> 0]
    ELSE [undef |-> FALSE, q |-> -(DivTruncPos(a, -b).q), r |-> DivTruncPos(a, -b).r]

\* case OP_RTYPE of CPU::execute
ExecuteRType(c, word, inp) ==
    LET rs == FieldRs(word)
        rt == FieldRt(word)
        rd == FieldRd(word)
        shamt == FieldShamt(word)
        funct == FieldFunct(word)
        a == readU(c.regs, rs)
        b == readU(c.regs, rt)
        sh == Lo16(a) % 32
        \* uint64 a + b exceeds UINT32_MAX
        AddCarries ==
            Hi16(a) + Hi16(b) + ((Lo16(a) + Lo16(b)) \div 65536) >= 65536
        \* int64 a - b leaves the int32 range
        SubOverflows ==
            \/ a >= 0 /\ b < 0 /\ a > INT32_MAX + b
            \/ a < 0 /\ b >= 0 /\ a < INT32_MIN + b
    IN  CASE funct = FUNCT_ADD ->
                IF AddOverflows(a, b) THEN Trap(c, "MIPS integer overflow on add")
                ELSE WriteReg(c, rd, a + b)
          [] funct = FUNCT_ADDU ->
                IF AddCarries THEN Trap(c, "MIPS integer overflow on addu")
                ELSE WriteReg(c, rd, Add32(a, b))
          [] funct = FUNCT_SUB ->
                IF SubOverflows THEN Trap(c, "MIPS integer overflow on sub")
                ELSE WriteReg(c, rd, a - b)
          [] funct = FUNCT_SUBU ->
                IF ULT(a, b) THEN Trap(c, "MIPS integer overflow on subu")
                ELSE WriteReg(c, rd, Sub32(a, b))
          [] funct = FUNCT_AND -> WriteReg(c, rd, And32(a, b))
          [] funct = FUNCT_OR -> WriteReg(c, rd, Or32(a, b))
          [] funct = FUNCT_XOR -> WriteReg(c, rd, Xor32(a, b))
          [] funct = FUNCT_NOR -> WriteReg(c, rd, Not32(Or32(a, b)))
          [] funct = FUNCT_SLT -> WriteReg(c, rd, IF a < b THEN 1 ELSE 0)
          [] funct = FUNCT_SLTU -> WriteReg(c, rd, IF ULT(a, b) THEN 1 ELSE 0)
          [] funct = FUNCT_SEQ -> WriteReg(c, rd, IF a = b THEN 1 ELSE 0)
          [] funct = FUNCT_SLL -> WriteReg(c, rd, Shl32(b, shamt))
          [] funct = FUNCT_SRL -> WriteReg(c, rd, Srl32(b, shamt))
          [] funct = FUNCT_SRA -> WriteReg(c, rd, Sra32(b, shamt))
          [] funct = FUNCT_SLLV -> WriteReg(c, rd, Shl32(b, sh))
          [] funct = FUNCT_SRLV -> WriteReg(c, rd, Srl32(b, sh))
          [] funct = FUNCT_SRAV -> WriteReg(c, rd, Sra32(b, sh))
          [] funct = FUNCT_MULT ->
                [c EXCEPT !.hi = MulS64(a, b).hi, !.lo = MulS64(a, b).lo]
          [] funct = FUNCT_MULTU ->
                [c EXCEPT !.hi = MulU64(a, b).hi, !.lo = MulU64(a, b).lo]
          [] funct = FUNCT_DIV ->
                IF b = 0 THEN Trap(c, "MIPS divide by zero (div)")
                ELSE IF DivS32(a, b).undef
                THEN IF inp.wrap THEN [c EXCEPT !.lo = INT32_MIN, !.hi = 0]
                     ELSE Trap(c, SIGFPE)
                ELSE [c EXCEPT !.lo = DivS32(a, b).q, !.hi = DivS32(a, b).r]
          [] funct = FUNCT_DIVU ->
                IF b = 0 THEN Trap(c, "MIPS divide by zero (divu)")
                ELSE [c EXCEPT !.lo = DivUStep(a, b, 31, 0, 0).q, !.hi = DivUStep(a, b, 31, 0, 0).r]
          [] funct = FUNCT_MFHI -> WriteReg(c, rd, c.hi)
          [] funct = FUNCT_MFLO -> WriteReg(c, rd, c.lo)
          [] funct = FUNCT_MTHI -> [c EXCEPT !.hi = a]
          [] funct = FUNCT_MTLO -> [c EXCEPT !.lo = a]
          [] funct = FUNCT_JR -> [c EXCEPT !.pc = a]
          [] funct = FUNCT_JALR ->
                LET w == WriteReg(c, 31, c.pc)
                IN  [w EXCEPT !.pc = readU(w.regs, rs)]
          [] funct = FUNCT_SYSCALL -> Syscall(c, inp)
          [] OTHER -> Trap(c, "Unknown R-type funct")

\* pc + (sign_extend(imm) << 2)
BranchTarget(pc, imm) == Add32(pc, Shl32(SignExt16(imm), 2))

\* (pc & 0xF0000000) | (target << 2)
JumpTarget(pc, target) ==
    W32((Hi16(pc) \div 4096) * 4096 + ((target * 4) \div 65536), (target * 4) % 65536)

\* CPU::execute: c.pc is the already advanced pc
execute(c, word, inp) ==
    LET opcode == FieldOpcode(word)
        rs == FieldRs(word)
        rt == FieldRt(word)
        imm == FieldImm(word)
        a == readU(c.regs, rs)
        v == readU(c.regs, rt)
        addr == Add32(a, SignExt16(imm))
    IN  CASE opcode = OP_RTYPE -> ExecuteRType(c, word, inp)
          [] opcode = OP_ADDI ->
                IF AddOverflows(a, SignExt16(imm))
                THEN Trap(c, "MIPS integer overflow on addi")
                ELSE WriteReg(c, rt, a + SignExt16(imm))
          [] opcode = OP_ADDIU ->
                \* int32_t r = a + imm: a signed overflow is undefined; the
                \* build either wraps or aborts
                IF AddOverflows(a, SignExt16(imm)) /\ ~inp.wrap THEN Trap(c, SIGFPE)
                ELSE WriteReg(c, rt, Add32(a, SignExt16(imm)))
          [] opcode = OP_ANDI -> WriteReg(c, rt, And32(a, imm))
          [] opcode = OP_ORI -> WriteReg(c, rt, Or32(a, imm))
          [] opcode = OP_XORI -> WriteReg(c, rt, Xor32(a, imm))
          [] opcode = OP_SLTI -> WriteReg(c, rt, IF a < SignExt16(imm) THEN 1 ELSE 0)
          [] opcode = OP_SLTIU ->
                WriteReg(c, rt, IF ULT(a, SignExt16(imm)) THEN 1 ELSE 0)
          [] opcode = OP_LUI -> WriteReg(c, rt, W32(imm, 0))
          [] opcode = OP_LB ->
                LET l == load8(c.mem, addr)
                IN  IF l.err # "" THEN Trap(c, l.err)
                    ELSE WriteReg(c, rt, SignExt8(l.val))
          [] opcode = OP_LBU ->
                LET l == load8(c.mem, addr)
                IN  IF l.err # "" THEN Trap(c, l.err) ELSE WriteReg(c, rt, l.val)
          [] opcode = OP_LH ->
                LET b0 == load8(c.mem, addr)
                    b1 == load8(c.mem, Add32(addr, 1))
                IN  IF addr % 2 # 0 THEN Trap(c, "MIPS lh: unaligned address")
                    ELSE IF b0.err # "" THEN Trap(c, b0.err)
                    ELSE IF b1.err # "" THEN Trap(c, b1.err)
                    ELSE WriteReg(c, rt, SignExt16(b0.val * 256 + b1.val))
          [] opcode = OP_LHU ->
                LET b0 == load8(c.mem, addr)
                    b1 == load8(c.mem, Add32(addr, 1))
                IN  IF addr % 2 # 0 THEN Trap(c, "MIPS lhu: unaligned address")
                    ELSE IF b0.err # "" THEN Trap(c, b0.err)
                    ELSE IF b1.err # "" THEN Trap(c, b1.err)
                    ELSE WriteReg(c, rt, b0.val * 256 + b1.val)
          [] opcode = OP_LW ->
                LET l == load32(c.mem, addr)
                IN  IF l.err # "" THEN Trap(c, l.err) ELSE WriteReg(c, rt, l.val)
          [] opcode = OP_SB ->
                LET s == store8(c.mem, addr, Lo16(v) % 256)
                IN  [c EXCEPT !.mem = s.mem, !.err = s.err]
          [] opcode = OP_SH ->
                LET s0 == store8(c.mem, addr, Lo16(v) \div 256)
                    s1 == store8(s0.mem, Add32(addr, 1), Lo16(v) % 256)
                IN  IF addr % 2 # 0 THEN Trap(c, "MIPS sh: unaligned address")
                    ELSE IF s0.err # "" THEN Trap(c, s0.err)
                    ELSE [c EXCEPT !.mem = s1.mem, !.err = s1.err]
          [] opcode = OP_SW ->
                LET s == store32(c.mem, addr, v)
                IN  [c EXCEPT !.mem = s.mem, !.err = s.err]
          [] opcode = OP_BEQ ->
                IF a = v THEN [c EXCEPT !.pc = BranchTarget(c.pc, imm)] ELSE c
          [] opcode = OP_BNE ->
                IF a # v THEN [c EXCEPT !.pc = BranchTarget(c.pc, imm)] ELSE c
          [] opcode = OP_BGTZ ->
                IF a > 0 THEN [c EXCEPT !.pc = BranchTarget(c.pc, imm)] ELSE c
          [] opcode = OP_BLEZ ->
                IF a <= 0 THEN [c EXCEPT !.pc = BranchTarget(c.pc, imm)] ELSE c
          [] opcode = OP_J ->
                [c EXCEPT !.pc = JumpTarget(c.pc, FieldTarget(word))]
          [] opcode = OP_JAL ->
                LET w == WriteReg(c, 31, c.pc)
                IN  [w EXCEPT !.pc = JumpTarget(c.pc, FieldTarget(word))]
          [] OTHER -> Trap(c, "Unknown opcode")

\* CPU::step: fetch, bump pc, execute.  A failed fetch leaves pc where it was.
step(c, inp) ==
    LET f == load32(c.mem, c.pc)
    IN  IF f.err # "" THEN Trap(c, f.err)
        ELSE execute([c EXCEPT !.pc = Add32(c.pc, 4)], f.val, inp)

\* ------------------------------------------------------------------------
\* Machine.h.  The assembler-side state of the Machine is the record
\*   [mem, text_cursor, data_cursor, labels, branch_fixups, jump_fixups,
\*    la_fixups_, err]
\* labels is a function from the bound names to their addresses; the fixup
\* lists are sequences, in vector order.
\* ------------------------------------------------------------------------
NoLabels == [n \in {} |-> 0]

has_label(ms, name) == name \in DOMAIN ms.labels
lookup_label(ms, name) == ms.labels[name]

add_branch_fixup(ms, instr_addr, opcode, rs, rt, label) ==
    [ms EXCEPT !.branch_fixups =
        Append(@, [instr_addr |-> instr_addr, opcode |-> opcode,
                   rs |-> rs, rt |-> rt, label |-> label])]

add_jump_fixup(ms, instr_addr, opcode, label) ==
    [ms EXCEPT !.jump_fixups =
        Append(@, [instr_addr |-> instr_addr, opcode |-> opcode, label |-> label])]

\* no fixup is ever seen
has_unresolved_fixups_never(ms) == FALSE
has_unresolved_fixups(ms) ==
    ms.branch_fixups # <<>> \/ ms.jump_fixups # <<>> \/ ms.la_fixups_ # <<>>

\* v[i] = v.back(); v.pop_back();   (i is 1-based here)
SwapRemove(v, i) ==
    IF i = Len(v) THEN SubSeq(v, 1, Len(v) - 1)
    ELSE [SubSeq(v, 1, Len(v) - 1) EXCEPT ![i] = v[Len(v)]]

\* the offset taken from the branch's own address
BranchImm_from_instr(target_addr, instr_pc) ==
    LET diff == target_addr - instr_pc
        offset == diff \div 4
    IN  IF diff % 4 # 0 THEN [err |-> "Branch target not word-aligned", imm |-> 0]
        ELSE IF offset < -32768 \/ offset > 32767
        THEN [err |-> "Branch offset out of 16-bit range", imm |-> 0]
        ELSE [err |-> "", imm |-> offset % 65536]

\* offset = (target - (instr_pc + 4)) >> 2, checked, as a 16-bit field
BranchImm(target_addr, instr_pc) ==
    LET diff == target_addr - (instr_pc + 4)
        offset == diff \div 4
    IN  IF diff % 4 # 0 THEN [err |-> "Branch target not word-aligned", imm |-> 0]
        ELSE IF offset < -32768 \/ offset > 32767
        THEN [err |-> "Branch offset out of 16-bit range", imm |-> 0]
        ELSE [err |-> "", imm |-> offset % 65536]

\* the low 26 bits of the address itself
JumpField_unshifted(target_addr) ==
    (Hi16(target_addr) % 1024) * 65536 + Lo16(target_addr)

\* (target_addr >> 2) & 0x03FFFFFF
JumpField(target_addr) ==
    (Hi16(Srl32(target_addr, 2)) % 1024) * 65536 + Lo16(Srl32(target_addr, 2))

\* emit_text_word without its overflow check
emit_text_word_unbounded(ms, instr) ==
    IF ms.text_cursor % 4 # 0
    THEN [ms EXCEPT !.err = "emit_text_word: text_cursor not aligned"]
    ELSE LET s == store32(ms.mem, ms.text_cursor, instr)
         IN  IF s.err # "" THEN [ms EXCEPT !.err = s.err]
             ELSE [ms EXCEPT !.mem = s.mem, !.text_cursor = @ + 4]

\* Machine::emit_text_word
emit_text_word(ms, instr) ==
    IF ms.text_cursor % 4 # 0
    THEN [ms EXCEPT !.err = "emit_text_word: text_cursor not aligned"]
    ELSE IF ms.text_cursor + 4 > TEXT_LIMIT
    THEN [ms EXCEPT !.err = "emit_text_word: text segment overflow"]
    ELSE LET s == store32(ms.mem, ms.text_cursor, instr)
         IN  IF s.err # "" THEN [ms EXCEPT !.err = s.err]
             ELSE [ms EXCEPT !.mem = s.mem, !.text_cursor = @ + 4]

\* Machine::resolve_fixups_for from the branch loop on, from index i
\* (1-based): the branches, then the jumps, then the la pairs; a throw ends it
RECURSIVE ResolveBranches(_, _, _, _), ResolveJumps(_, _, _, _),
          ResolveLas(_, _, _, _), LaPatch(_, _, _, _, _, _)
ResolveBranches(ms, label, target_addr, i) ==
    IF i > Len(ms.branch_fixups) THEN ResolveJumps(ms, label, target_addr, 1)
    ELSE LET f == ms.branch_fixups[i]
             b == BranchImm(target_addr, f.instr_addr)
             s == store32(ms.mem, f.instr_addr, EncodeI(f.opcode, f.rs, f.rt, b.imm))
         IN  IF f.label # label THEN ResolveBranches(ms, label, target_addr, i + 1)
             ELSE IF b.err # "" THEN [ms EXCEPT !.err = b.err]
             ELSE IF s.err # "" THEN [ms EXCEPT !.err = s.err]
             ELSE ResolveBranches(
                    [ms EXCEPT !.mem = s.mem,
                               !.branch_fixups = SwapRemove(@, i)],
                    label, target_addr, i)

\* the jump loop
ResolveJumps(ms, label, target_addr, i) ==
    IF i > Len(ms.jump_fixups) THEN ResolveLas(ms, label, target_addr, 1)
    ELSE LET f == ms.jump_fixups[i]
             s == store32(ms.mem, f.instr_addr, EncodeJ(f.opcode, JumpField(target_addr)))
         IN  IF f.label # label THEN ResolveJumps(ms, label, target_addr, i + 1)
             ELSE IF target_addr % 4 # 0
             THEN [ms EXCEPT !.err = "Jump target not word-aligned"]
             ELSE IF s.err # "" THEN [ms EXCEPT !.err = s.err]
             ELSE ResolveJumps(
                    [ms EXCEPT !.mem = s.mem, !.jump_fixups = SwapRemove(@, i)],
                    label, target_addr, i)

\* the la loop: the LUI word at instr_addr gets the high half of the address,
\* the ORI word after it the low half.  lui and ori are the two words as
\* loaded (the store of the first leaves the bytes of the second alone).
ResolveLas(ms, label, target_addr, i) ==
    IF i > Len(ms.la_fixups_) THEN ms
    ELSE IF ms.la_fixups_[i].label # label THEN ResolveLas(ms, label, target_addr, i + 1)
    ELSE LaPatch(ms, label, target_addr, i,
                 load32(ms.mem, ms.la_fixups_[i].instr_addr),
                 load32(ms.mem, Add32(ms.la_fixups_[i].instr_addr, 4)))

LaPatch(ms, label, target_addr, i, lui, ori) ==
    LET s1 == store32(ms.mem, ms.la_fixups_[i].instr_addr,
                      W32(Hi16(lui.val), Hi16(target_addr)))
        s2 == store32(s1.mem, Add32(ms.la_fixups_[i].instr_addr, 4),
                      W32(Hi16(ori.val), Lo16(target_addr)))
    IN  IF lui.err # "" THEN [ms EXCEPT !.err = lui.err]
        ELSE IF s1.err # "" THEN [ms EXCEPT !.err = s1.err]
        ELSE IF ori.err # "" THEN [ms EXCEPT !.mem = s1.mem, !.err = ori.err]
        ELSE IF s2.err # "" THEN [ms EXCEPT !.mem = s1.mem, !.err = s2.err]
        ELSE ResolveLas([ms EXCEPT !.mem = s2.mem, !.la_fixups_ = SwapRemove(@, i)],
                        label, target_addr, i)

\* Machine::resolve_fixups_for
resolve_fixups_for(ms, label) ==
    IF ~has_label(ms, label) THEN ms
    ELSE ResolveBranches(ms, label, ms.labels[label], 1)

\* labels[name] = addr
BindLabel(ms, name, addr) ==
    [ms EXCEPT !.labels =
        [n \in (DOMAIN @) \cup {name} |-> IF n = name THEN addr ELSE @[n]]]

\* define_label with the bug of binding again a name that is bound
define_label_rebinds(ms, name, addr) ==
    resolve_fixups_for(BindLabel(ms, name, addr), name)

\* Machine::define_label
define_label(ms, name, addr) ==
    IF ~has_label(ms, name)
    THEN resolve_fixups_for(BindLabel(ms, name, addr), name)
    ELSE [ms EXCEPT !.err = "Label redefined: " \o name]

\* ------------------------------------------------------------------------
\* Tokens and tables (Token.h, Constants.h).  A token is the record
\*   [type, text, chars]
\* type is the TokenType name, text the token's string, and chars, for an
\* INT token, the literal as a sequence of one-character strings.
\* A line is the token vector lex_core produces for it, EOL last.
\* ------------------------------------------------------------------------
Tk(type, text) == [type |-> type, text |-> text, chars |-> <<>>]
TkInt(chars) == [type |-> "INT", text |-> "", chars |-> chars]
TkEOL == Tk("EOL", "")
TkComma == Tk("COMMA", ",")
TkColon == Tk("COLON", ":")
TkReg(name) == Tk("REGISTER", name)
TkId(name) == Tk("IDENTIFIER", name)

REG_TABLE ==
    << {"$zero", "$0"}, {"$at", "$1"}, {"$v0", "$2"}, {"$v1", "$3"},
       {"$a0", "$4"}, {"$a1", "$5"}, {"$a2", "$6"}, {"$a3", "$7"},
       {"$t0", "$8"}, {"$t1", "$9"}, {"$t2", "$10"}, {"$t3", "$11"},
       {"$t4", "$12"}, {"$t5", "$13"}, {"$t6", "$14"}, {"$t7", "$15"},
       {"$s0", "$16"}, {"$s1", "$17"}, {"$s2", "$18"}, {"$s3", "$19"},
       {"$s4", "$20"}, {"$s5", "$21"}, {"$s6", "$22"}, {"$s7", "$23"},
       {"$t8", "$24"}, {"$t9", "$25"}, {"$k0", "$26"}, {"$k1", "$27"},
       {"$gp", "$28"}, {"$sp", "$29"}, {"$fp", "$s8", "$30"}, {"$ra", "$31"} >>

AT == CHOOSE k \in RegIdx : "$at" \in REG_TABLE[k + 1]
ZERO == CHOOSE k \in RegIdx : "$zero" \in REG_TABLE[k + 1]

II(m, t, o, f) == [mnemonic |-> m, type |-> t, opcode |-> o, funct |-> f]

INSTR_TABLE ==
    { II("add", "R3", OP_RTYPE, FUNCT_ADD), II("addu", "R3", OP_RTYPE, FUNCT_ADDU),
      II("sub", "R3", OP_RTYPE, FUNCT_SUB), II("subu", "R3", OP_RTYPE, FUNCT_SUBU),
      II("and", "R3", OP_RTYPE, FUNCT_AND), II("or", "R3", OP_RTYPE, FUNCT_OR),
      II("xor", "R3", OP_RTYPE, FUNCT_XOR), II("nor", "R3", OP_RTYPE, FUNCT_NOR),
      II("slt", "R3", OP_RTYPE, FUNCT_SLT), II("sltu", "R3", OP_RTYPE, FUNCT_SLTU),
      II("seq", "R3", OP_RTYPE, FUNCT_SEQ),
      II("mult", "R_HILO2", OP_RTYPE, FUNCT_MULT),
      II("multu", "R_HILO2", OP_RTYPE, FUNCT_MULTU),
      II("div", "R_HILO2", OP_RTYPE, FUNCT_DIV),
      II("divu", "R_HILO2", OP_RTYPE, FUNCT_DIVU),
      II("mfhi", "R_HILO1", OP_RTYPE, FUNCT_MFHI),
      II("mflo", "R_HILO1", OP_RTYPE, FUNCT_MFLO),
      II("mthi", "R_HILO1", OP_RTYPE, FUNCT_MTHI),
      II("mtlo", "R_HILO1", OP_RTYPE, FUNCT_MTLO),
      II("sll", "RSHIFT", OP_RTYPE, FUNCT_SLL), II("srl", "RSHIFT", OP_RTYPE, FUNCT_SRL),
      II("sra", "RSHIFT", OP_RTYPE, FUNCT_SRA),
      II("sllv", "R3", OP_RTYPE, FUNCT_SLLV), II("srlv", "R3", OP_RTYPE, FUNCT_SRLV),
      II("srav", "R3", OP_RTYPE, FUNCT_SRAV),
      II("jr", "JR_JALR", OP_RTYPE, FUNCT_JR), II("jalr", "JR_JALR", OP_RTYPE, FUNCT_JALR),
      II("syscall", "SYSCALL", OP_RTYPE, FUNCT_SYSCALL),
      II("addi", "I_ARITH", OP_ADDI, FUNCT_NONE), II("addiu", "I_ARITH", OP_ADDIU, FUNCT_NONE),
      II("andi", "I_ARITH", OP_ANDI, FUNCT_NONE), II("ori", "I_ARITH", OP_ORI, FUNCT_NONE),
      II("xori", "I_ARITH", OP_XORI, FUNCT_NONE), II("slti", "I_ARITH", OP_SLTI, FUNCT_NONE),
      II("sltiu", "I_ARITH", OP_SLTIU, FUNCT_NONE), II("lui", "I_ARITH", OP_LUI, FUNCT_NONE),
      II("lw", "I_LS", OP_LW, FUNCT_NONE), II("sw", "I_LS", OP_SW, FUNCT_NONE),
      II("lb", "I_LS", OP_LB, FUNCT_NONE), II("lbu", "I_LS", OP_LBU, FUNCT_NONE),
      II("lh", "I_LS", OP_LH, FUNCT_NONE), II("lhu", "I_LS", OP_LHU, FUNCT_NONE),
      II("sb", "I_LS", OP_SB, FUNCT_NONE), II("sh", "I_LS", OP_SH, FUNCT_NONE),
      II("beq", "I_BRANCH", OP_BEQ, FUNCT_NONE), II("bne", "I_BRANCH", OP_BNE, FUNCT_NONE),
      II("bgtz", "I_BRANCH1", OP_BGTZ, FUNCT_NONE),
      II("blez", "I_BRANCH1", OP_BLEZ, FUNCT_NONE),
      II("bltz", "I_BRANCH1", OP_REGIMM, RT_BLTZ),
      II("bgez", "I_BRANCH1", OP_REGIMM, RT_BGEZ),
      II("j", "JUMP", OP_J, FUNCT_NONE), II("jal", "JUMP", OP_JAL, FUNCT_NONE) }

PSEUDO_TABLE ==
    [m \in {"abs", "neg", "negu", "not", "mul", "sge", "sgt", "blt", "ble",
            "bgt", "bge", "b", "li", "la", "move"} |->
        CASE m = "abs" -> "ABS" [] m = "neg" -> "NEG" [] m = "negu" -> "NEGU"
          [] m = "not" -> "NOT" [] m = "mul" -> "MUL" [] m = "sge" -> "SGE"
          [] m = "sgt" -> "SGT" [] m = "blt" -> "BLT" [] m = "ble" -> "BLE"
          [] m = "bgt" -> "BGT" [] m = "bge" -> "BGE" [] m = "b" -> "B"
          [] m = "li" -> "LI" [] m = "la" -> "LA" [] m = "move" -> "MOVE"]

PATTERNS ==
    [t \in {"R3", "RSHIFT", "I_ARITH", "I_LS", "I_BRANCH", "I_BRANCH1", "JUMP",
            "SYSCALL", "JR_JALR", "R_HILO1", "R_HILO2"} |->
        CASE t = "R3" -> <<"REGISTER", "COMMA", "REGISTER", "COMMA", "REGISTER", "EOL">>
          [] t = "RSHIFT" -> <<"REGISTER", "COMMA", "REGISTER", "COMMA", "INT", "EOL">>
          [] t = "I_ARITH" -> <<"REGISTER", "COMMA", "REGISTER", "COMMA", "INT", "EOL">>
          [] t = "I_LS" ->
               <<"REGISTER", "COMMA", "INT", "LPAREN", "REGISTER", "RPAREN", "EOL">>
          [] t = "I_BRANCH" ->
               <<"REGISTER", "COMMA", "REGISTER", "COMMA", "IDENTIFIER", "EOL">>
          [] t = "I_BRANCH1" -> <<"REGISTER", "COMMA", "IDENTIFIER", "EOL">>
          [] t = "JUMP" -> <<"IDENTIFIER", "EOL">>
          [] t = "SYSCALL" -> <<"EOL">>
          [] t = "JR_JALR" -> <<"REGISTER", "EOL">>
          [] t = "R_HILO1" -> <<"REGISTER", "EOL">>
          [] t = "R_HILO2" -> <<"REGISTER", "COMMA", "REGISTER", "EOL">>]

is_pseudo(mnem) == mnem \in DOMAIN PSEUDO_TABLE
get_pseudo(mnem) == PSEUDO_TABLE[mnem]
get_instr_info(mnemonic) == CHOOSE e \in INSTR_TABLE : e.mnemonic = mnemonic
get_pattern(type) == PATTERNS[type]

RegisterOf(type, nums) ==
    IF type # "REGISTER" THEN [err |-> "Expected register token", val |-> 0]
    ELSE IF nums = {} THEN [err |-> "Invalid register name", val |-> 0]
    ELSE [err |-> "", val |-> CHOOSE k \in nums : TRUE]

\* Parser::parse_register (message without the name)
parse_register(tok) ==
    RegisterOf(tok.type, {k \in RegIdx : tok.text \in REG_TABLE[k + 1]})

\* the digit a character stands for in the base, or -1 when it is not one
DigitOf(ch, base) ==
    LET DecDigits == <<"0", "1", "2", "3", "4", "5", "6", "7", "8", "9">>
        HexLower == <<"a", "b", "c", "d", "e", "f">>
        HexUpper == <<"A", "B", "C", "D", "E", "F">>
    IN
    IF \E d \in 1..10 : DecDigits[d] = ch /\ d - 1 < (IF base = 8 THEN 8 ELSE 10)
    THEN (CHOOSE d \in 1..10 : DecDigits[d] = ch) - 1
    ELSE IF base = 16 /\ \E d \in 1..6 : HexLower[d] = ch \/ HexUpper[d] = ch
    THEN 9 + CHOOSE d \in 1..6 : HexLower[d] = ch \/ HexUpper[d] = ch
    ELSE -1

\* the accumulation loop of parse_int_token, from position i (1-based).
\* value is the uint64_t of the source as four 16-bit limbs, lowest first:
\* value * base + digit wraps modulo 2^64
RECURSIVE AccumulateDigits(_, _, _, _), AccumulateNext(_, _, _, _, _)
AccumulateDigits(text, i, base, value) ==
    IF i > Len(text) THEN [err |-> "", val |-> value]
    ELSE AccumulateNext(text, i, base, value, DigitOf(text[i], base))

AccumulateNext(text, i, base, value, digit) ==
    LET t1 == value[1] * base + digit
        t2 == value[2] * base + t1 \div 65536
        t3 == value[3] * base + t2 \div 65536
        t4 == value[4] * base + t3 \div 65536
    IN  IF digit < 0
        THEN [err |-> CASE base = 16 -> "Invalid hex digit in"
                        [] base = 8 -> "Invalid octal digit in"
                        [] OTHER -> "Invalid decimal digit in", val |-> 0]
        ELSE AccumulateDigits(text, i + 1, base,
                              <<t1 % 65536, t2 % 65536, t3 % 65536, t4 % 65536>>)

\* parse_int_token once the sign and the base are known: i is the (1-based)
\* position of the first digit.  The result is the int64_t signed_val
\* (static_cast<int64_t>(value), negated for a literal with a sign): val when
\* it is an int32_t, and otherwise big = 1 or -1, its sign.  (The negation of
\* 2^63 is the one undefined case; it is taken as the two's complement one)
IntLiteral(text, negative, base, i, acc) ==
    LET v == acc.val
        n1 == 65536 - v[1]
        n2 == 65535 - v[2] + n1 \div 65536
        n3 == 65535 - v[3] + n2 \div 65536
        n4 == 65535 - v[4] + n3 \div 65536
        sv == IF negative THEN <<n1 % 65536, n2 % 65536, n3 % 65536, n4 % 65536>>
              ELSE v
    IN  IF base = 16 /\ i > Len(text)
        THEN [err |-> "Invalid hex literal", val |-> 0, big |-> 0]
        ELSE IF base = 8 /\ i > Len(text) THEN [err |-> "", val |-> 0, big |-> 0]
        ELSE IF acc.err # "" THEN [err |-> acc.err, val |-> 0, big |-> 0]
        ELSE IF sv[4] = 0 /\ sv[3] = 0 /\ sv[2] < 32768
        THEN [err |-> "", val |-> sv[2] * 65536 + sv[1], big |-> 0]
        ELSE IF sv[4] = 65535 /\ sv[3] = 65535 /\ sv[2] >= 32768
        THEN [err |-> "", val |-> W32(sv[2], sv[1]), big |-> 0]
        ELSE [err |-> "", val |-> 0, big |-> IF sv[4] >= 32768 THEN -1 ELSE 1]

\* the base of the literal whose digits (after the sign) start at i
BaseAt(text, i) ==
    IF i + 1 <= Len(text) /\ text[i] = "0" /\ text[i + 1] \in {"x", "X"} THEN 16
    ELSE IF i <= Len(text) /\ text[i] = "0" THEN 8
    ELSE 10

IntBody(text, negative, base, first) ==
    IntLiteral(text, negative, base, first,
               IF first > Len(text) THEN [err |-> "", val |-> <<0, 0, 0, 0>>]
               ELSE AccumulateDigits(text, first, base, <<0, 0, 0, 0>>))

SignedLiteral(text, negative, i) ==
    IF negative /\ i > Len(text)
    THEN [err |-> "Invalid integer literal", val |-> 0, big |-> 0]
    ELSE IntBody(text, negative, BaseAt(text, i),
                 IF BaseAt(text, i) = 16 THEN i + 2
                 ELSE IF BaseAt(text, i) = 8 THEN i + 1 ELSE i)

\* Parser::parse_int_token
parse_int_token(tok) ==
    IF tok.type # "INT" THEN [err |-> "Expected integer token", val |-> 0, big |-> 0]
    ELSE IF Len(tok.chars) = 0
    THEN [err |-> "Empty integer token", val |-> 0, big |-> 0]
    ELSE SignedLiteral(tok.chars, tok.chars[1] = "-",
                       IF tok.chars[1] = "-" THEN 2 ELSE 1)

\* the range check of parse_imm16_signed, parse_imm16_unsigned, parse_imm32
\* and parse_shamt
RangeChecked(v, lo, hi, msg) ==
    IF v.err # "" THEN [err |-> v.err, val |-> 0]
    ELSE IF v.big # 0 \/ v.val < lo \/ v.val > hi THEN [err |-> msg, val |-> 0]
    ELSE [err |-> "", val |-> v.val]

parse_imm16_signed(tok) ==
    RangeChecked(parse_int_token(tok), -32768, 32767,
                 "Immediate out of 16-bit signed range")
parse_imm16_unsigned(tok) ==
    RangeChecked(parse_int_token(tok), 0, 65535,
                 "Immediate out of 16-bit unsigned range")
parse_imm32(tok) ==
    RangeChecked(parse_int_token(tok), INT32_MIN, INT32_MAX,
                 "Immediate out of 32-bit range")
parse_shamt(tok) ==
    RangeChecked(parse_int_token(tok), 0, 31, "Shift amount out of range 0..31")

\* ------------------------------------------------------------------------
\* Parser.h.  toks[j] of the source is TokAt(toks, j, g): the source indexes
\* from 0, and g is what a read past the end of the vector yields (the
\* pseudo-instruction expansions index without checking the size).
\* An operand read is [err, val, text, ub]; ub says the read was past the end.
\* A parse result is [err, words, ms, ub].
\* ------------------------------------------------------------------------
TokAt(toks, j, g) == IF j < Len(toks) THEN toks[j + 1] ELSE g

RegOp(toks, j, g) ==
    LET r == parse_register(TokAt(toks, j, g))
    IN  [err |-> r.err, val |-> r.val, text |-> "", ub |-> j >= Len(toks)]

ImmOp(r, toks, j) ==
    [err |-> r.err, val |-> r.val, text |-> "", ub |-> j >= Len(toks)]

LabelOp(toks, j, g, msg) ==
    [err |-> IF TokAt(toks, j, g).type # "IDENTIFIER" THEN msg ELSE "",
     val |-> 0, text |-> TokAt(toks, j, g).text, ub |-> j >= Len(toks)]

\* the operand reads of one case, in statement order: the first that throws
\* ends the case, and the reads after it never happen
FirstErr(ops) ==
    IF \E k \in 1..Len(ops) : ops[k].err # ""
    THEN CHOOSE k \in 1..Len(ops) :
            ops[k].err # "" /\ \A m \in 1..(k - 1) : ops[m].err = ""
    ELSE Len(ops) + 1
ChainErr(ops) == IF FirstErr(ops) > Len(ops) THEN "" ELSE ops[FirstErr(ops)].err
ChainUb(ops) == \E k \in 1..Len(ops) : k <= FirstErr(ops) /\ ops[k].ub

Parsed(ms, words, ub) == [err |-> "", words |-> words, ms |-> ms, ub |-> ub]
ParseThrow(ms, msg, ub) == [err |-> msg, words |-> <<>>, ms |-> ms, ub |-> ub]

\* a fixup recorded at the address of the line, not of the branch word
BranchWords_fixup_at_line(ms, opcode, rs, rt, label, current_pc, words, ub) ==
    LET instr_pc == Add32(current_pc, 4 * Len(words))
        b == BranchImm(lookup_label(ms, label), instr_pc)
    IN  IF has_label(ms, label)
        THEN IF b.err # "" THEN ParseThrow(ms, b.err, ub)
             ELSE Parsed(ms, Append(words, EncodeI(opcode, rs, rt, b.imm)), ub)
        ELSE Parsed(add_branch_fixup(ms, current_pc, opcode, rs, rt, label),
                    Append(words, EncodeI(opcode, rs, rt, 0)), ub)

\* the branch word and its fixup: known label -> offset, else placeholder
BranchWords(ms, opcode, rs, rt, label, current_pc, words, ub) ==
    LET instr_pc == Add32(current_pc, 4 * Len(words))
        b == BranchImm(lookup_label(ms, label), instr_pc)
    IN  IF has_label(ms, label)
        THEN IF b.err # "" THEN ParseThrow(ms, b.err, ub)
             ELSE Parsed(ms, Append(words, EncodeI(opcode, rs, rt, b.imm)), ub)
        ELSE Parsed(add_branch_fixup(ms, instr_pc, opcode, rs, rt, label),
                    Append(words, EncodeI(opcode, rs, rt, 0)), ub)

\* the jump word and its fixup
JumpWords(ms, opcode, label, current_pc, words, ub) ==
    LET instr_pc == Add32(current_pc, 4 * Len(words))
    IN  IF has_label(ms, label)
        THEN IF lookup_label(ms, label) % 4 # 0
             THEN ParseThrow(ms, "Jump target not word-aligned", ub)
             ELSE Parsed(ms, Append(words,
                            EncodeJ(opcode, JumpField(lookup_label(ms, label)))), ub)
        ELSE Parsed(add_jump_fixup(ms, instr_pc, opcode, label),
                    Append(words, EncodeJ(opcode, 0)), ub)

\* lui $at, hi(v) ; ori rt, $at, lo(v)
LuiOri(rt, v) ==
    << EncodeI(OP_LUI, ZERO, AT, Hi16(v)), EncodeI(OP_ORI, AT, rt, Lo16(v)) >>

\* Parser::expand_pseudo; i is mnem_index
expand_pseudo(ms, toks, i, current_pc, g) ==
    LET type == get_pseudo(TokAt(toks, i, g).text)
        r1 == RegOp(toks, i + 1, g)
        r2 == RegOp(toks, i + 3, g)
        r3 == RegOp(toks, i + 5, g)
        two == <<r1, r2>>
        three == <<r1, r2, r3>>
        imm == ImmOp(parse_imm32(TokAt(toks, i + 3, g)), toks, i + 3)
        li == <<r1, imm>>
        laLbl == LabelOp(toks, i + 3, g, "Expected label in la")
        la == <<r1, laLbl>>
        brLbl == LabelOp(toks, i + 5, g, "Expected label in branch pseudo")
        br == <<r1, r2, brLbl>>
        bLbl == LabelOp(toks, i + 1, g, "Expected label in b pseudo")
        R(rs, rt, rd, shamt, funct) == EncodeR(OP_RTYPE, rs, rt, rd, shamt, funct)
        Two(words) == IF ChainErr(two) # "" THEN ParseThrow(ms, ChainErr(two), ChainUb(two))
                      ELSE Parsed(ms, words, ChainUb(two))
        Three(words) ==
            IF ChainErr(three) # "" THEN ParseThrow(ms, ChainErr(three), ChainUb(three))
            ELSE Parsed(ms, words, ChainUb(three))
    IN  CASE type = "MOVE" -> Two(<<R(r2.val, ZERO, r1.val, 0, FUNCT_ADDU)>>)
          [] type = "LI" ->
               IF ChainErr(li) # "" THEN ParseThrow(ms, ChainErr(li), ChainUb(li))
               ELSE IF imm.val >= -32768 /\ imm.val <= 32767
               THEN Parsed(ms, <<EncodeI(OP_ADDI, ZERO, r1.val, imm.val % 65536)>>,
                           ChainUb(li))
               ELSE Parsed(ms, LuiOri(r1.val, imm.val), ChainUb(li))
          [] type = "LA" ->
               IF ChainErr(la) # "" THEN ParseThrow(ms, ChainErr(la), ChainUb(la))
               ELSE IF ~has_label(ms, laLbl.text)
               THEN ParseThrow(ms, "Label not defined yet for la", ChainUb(la))
               ELSE Parsed(ms, LuiOri(r1.val, lookup_label(ms, laLbl.text)), ChainUb(la))
          [] type \in {"BLT", "BLE", "BGT", "BGE"} ->
               IF ChainErr(br) # "" THEN ParseThrow(ms, ChainErr(br), ChainUb(br))
               ELSE BranchWords(ms,
                        IF type \in {"BLT", "BGT"} THEN OP_BNE ELSE OP_BEQ,
                        AT, ZERO, brLbl.text, current_pc,
                        << IF type \in {"BLT", "BGE"}
                           THEN R(r1.val, r2.val, AT, 0, FUNCT_SLT)
                           ELSE R(r2.val, r1.val, AT, 0, FUNCT_SLT) >>,
                        ChainUb(br))
          [] type = "B" ->
               IF bLbl.err # "" THEN ParseThrow(ms, bLbl.err, bLbl.ub)
               ELSE BranchWords(ms, OP_BEQ, ZERO, ZERO, bLbl.text, current_pc,
                                <<>>, bLbl.ub)
          [] type = "ABS" ->
               Two(<< R(0, r2.val, AT, 31, FUNCT_SRA),
                      R(r2.val, AT, r1.val, 0, FUNCT_XOR),
                      R(r1.val, AT, r1.val, 0, FUNCT_SUBU) >>)
          [] type = "NEG" -> Two(<<R(ZERO, r2.val, r1.val, 0, FUNCT_SUB)>>)
          [] type = "NEGU" -> Two(<<R(ZERO, r2.val, r1.val, 0, FUNCT_SUBU)>>)
          [] type = "NOT" -> Two(<<R(r2.val, ZERO, r1.val, 0, FUNCT_NOR)>>)
          [] type = "SGT" -> Three(<<R(r3.val, r2.val, r1.val, 0, FUNCT_SLT)>>)
          [] type = "SGE" ->
               Three(<< R(r2.val, r3.val, r1.val, 0, FUNCT_SLT),
                        EncodeI(OP_XORI, r1.val, r1.val, 1) >>)
          [] OTHER -> ParseThrow(ms, "Unknown pseudo-instruction", FALSE)

\* the pattern loop of Parser::assemble_text_line: every token but the last
PatternMatches(toks, i, pattern) ==
    \A k \in 0..(Len(pattern) - 2) :
        i + 1 + k < Len(toks) /\ toks[i + 1 + k + 1].type = pattern[k + 1]

\* the switch of Parser::assemble_text_line, after the pattern check
EncodeReal(ms, toks, i, info, current_pc) ==
    LET g == TkEOL
        j == i + 1
        a == RegOp(toks, j, g)
        b == RegOp(toks, j + 2, g)
        c == RegOp(toks, j + 4, g)
        sh == ImmOp(parse_shamt(TokAt(toks, j + 4, g)), toks, j + 4)
        im == ImmOp(IF info.opcode = OP_ANDI \/ info.opcode = OP_ORI
                    THEN parse_imm16_unsigned(TokAt(toks, j + 4, g))
                    ELSE parse_imm16_signed(TokAt(toks, j + 4, g)), toks, j + 4)
        off == ImmOp(parse_imm16_signed(TokAt(toks, j + 2, g)), toks, j + 2)
        brLbl == LabelOp(toks, j + 4, g, "Expected label identifier in branch")
        jLbl == LabelOp(toks, j, g, "Expected label identifier after jump")
        Simple(ops, word) ==
            IF ChainErr(ops) # "" THEN ParseThrow(ms, ChainErr(ops), FALSE)
            ELSE Parsed(ms, <<word>>, FALSE)
    IN  CASE info.type = "R3" ->
               Simple(<<a, b, c>>,
                      EncodeR(info.opcode, b.val, c.val, a.val, 0, info.funct))
          [] info.type = "RSHIFT" ->
               Simple(<<a, b, sh>>,
                      EncodeR(info.opcode, 0, b.val, a.val, sh.val, info.funct))
          [] info.type = "I_ARITH" ->
               Simple(<<a, b, im>>,
                      EncodeI(info.opcode, b.val, a.val, im.val % 65536))
          [] info.type = "I_LS" ->
               Simple(<<a, off, c>>,
                      EncodeI(info.opcode, c.val, a.val, off.val % 65536))
          [] info.type = "I_BRANCH" ->
               IF ChainErr(<<a, b, brLbl>>) # ""
               THEN ParseThrow(ms, ChainErr(<<a, b, brLbl>>), FALSE)
               ELSE BranchWords(ms, info.opcode, a.val, b.val, brLbl.text,
                                current_pc, <<>>, FALSE)
          [] info.type = "JUMP" ->
               IF jLbl.err # "" THEN ParseThrow(ms, jLbl.err, FALSE)
               ELSE JumpWords(ms, info.opcode, jLbl.text, current_pc, <<>>, FALSE)
          [] info.type = "SYSCALL" ->
               Parsed(ms, <<EncodeR(info.opcode, 0, 0, 0, 0, info.funct)>>, FALSE)
          [] info.type = "JR_JALR" ->
               Simple(<<a>>,
                      EncodeR(info.opcode, a.val, 0,
                              IF info.funct = FUNCT_JALR THEN 31 ELSE 0, 0, info.funct))
          [] OTHER -> ParseThrow(ms, "Unknown instruction pattern", FALSE)

\* Parser::assemble_text_line, after the optional label: i is the index of
\* the first token after it
AssembleAfterLabel(ms, toks, i, current_pc, g) ==
    LET mnemonic == toks[i + 1].text
    IN  IF ms.err # "" THEN ParseThrow(ms, ms.err, FALSE)
        ELSE IF toks[i + 1].type = "EOL" THEN Parsed(ms, <<>>, FALSE)
        ELSE IF toks[i + 1].type # "IDENTIFIER"
        THEN ParseThrow(ms, "Expected instruction mnemonic at start of line", FALSE)
        ELSE IF is_pseudo(mnemonic) THEN expand_pseudo(ms, toks, i, current_pc, g)
        ELSE IF \A e \in INSTR_TABLE : e.mnemonic # mnemonic THEN ParseThrow(ms, "Unknown instruction", FALSE)
        ELSE IF ~PatternMatches(toks, i, get_pattern(get_instr_info(mnemonic).type))
        THEN ParseThrow(ms, "Unknown assembly pattern", FALSE)
        ELSE EncodeReal(ms, toks, i, get_instr_info(mnemonic), current_pc)

\* a leading  name:  -- IDENTIFIER then COLON
HasLeadingLabel(toks) ==
    toks[1].type = "IDENTIFIER" /\ 1 < Len(toks) /\ toks[2].type = "COLON"

\* Parser::assemble_text_line
Parser_assemble_text_line(ms, toks, current_pc, g) ==
    AssembleAfterLabel(IF HasLeadingLabel(toks)
                       THEN define_label(ms, toks[1].text, current_pc) ELSE ms,
                       toks, IF HasLeadingLabel(toks) THEN 2 ELSE 0, current_pc, g)

\* ------------------------------------------------------------------------
\* Machine.h, data segment emitters
\* ------------------------------------------------------------------------
RECURSIVE StoreDataBytes(_, _, _, _)
StoreDataBytes(ms, bytes, i, addr) ==
    IF i > Len(bytes) THEN ms
    ELSE LET s == store8(ms.mem, addr, bytes[i])
         IN  IF s.err # "" THEN [ms EXCEPT !.err = s.err]
             ELSE StoreDataBytes([ms EXCEPT !.mem = s.mem], bytes, i + 1, Add32(addr, 1))

emit_data_bytes(ms, bytes) ==
    IF ULT(DATA_LIMIT, Add32(ms.data_cursor, Len(bytes)))
    THEN [ms EXCEPT !.err = "emit_data_bytes: data segment overflow"]
    ELSE LET s == StoreDataBytes(ms, bytes, 1, ms.data_cursor)
         IN  IF s.err # "" THEN s
             ELSE [s EXCEPT !.data_cursor = Add32(@, Len(bytes))]

emit_data_byte(ms, value) == emit_data_bytes(ms, <<value>>)

emit_data_word(ms, value) ==
    IF ms.data_cursor % 4 # 0
    THEN [ms EXCEPT !.err = "emit_data_word: data_cursor not aligned"]
    ELSE IF ULT(DATA_LIMIT, Add32(ms.data_cursor, 4))
    THEN [ms EXCEPT !.err = "emit_data_word: data segment overflow"]
    ELSE LET s == store32(ms.mem, ms.data_cursor, value)
         IN  IF s.err # "" THEN [ms EXCEPT !.err = s.err]
             ELSE [ms EXCEPT !.mem = s.mem, !.data_cursor = Add32(@, 4)]

\* ------------------------------------------------------------------------
\* Parser::assemble_data_line is declared by its caller but its body is not
\* among the sources; it follows the parser contract of the specification:
\* an optional leading label is bound to the current PC (the data cursor),
\* and the directive emits through the Machine's data emitters.
\* ------------------------------------------------------------------------
DataDirective(ms, toks, i) ==
    LET d == toks[i + 1]
        v == parse_imm32(TokAt(toks, i + 1, TkEOL))
    IN  IF ms.err # "" THEN ms
        ELSE IF d.type = "EOL" THEN ms
        ELSE IF d.type # "IDENTIFIER" \/ d.text \notin {".word", ".byte"}
        THEN [ms EXCEPT !.err = "Unknown data directive"]
        ELSE IF v.err # "" THEN [ms EXCEPT !.err = v.err]
        ELSE IF d.text = ".word" THEN emit_data_word(ms, v.val)
        ELSE emit_data_byte(ms, v.val % 256)

Parser_assemble_data_line(ms, toks, current_pc) ==
    DataDirective(IF HasLeadingLabel(toks)
                  THEN define_label(ms, toks[1].text, current_pc) ELSE ms,
                  toks, IF HasLeadingLabel(toks) THEN 2 ELSE 0)

\* ------------------------------------------------------------------------
\* Interpreter.h, assembly helpers.  The result is [ms, ub]; ms.err is the
\* message of the exception thrown, "" when none.
\* ------------------------------------------------------------------------
RECURSIVE EmitWords(_, _, _)
EmitWords(ms, words, i) ==
    IF i > Len(words) \/ ms.err # "" THEN ms
    ELSE EmitWords(emit_text_word(ms, words[i]), words, i + 1)

\* the loop over the words the parser returned
EmitParsed(p) ==
    IF p.err # "" THEN [ms |-> [p.ms EXCEPT !.err = p.err], ub |-> p.ub]
    ELSE [ms |-> EmitWords(p.ms, p.words, 1), ub |-> p.ub]

assemble_text_line(ms, toks, g) ==
    EmitParsed(Parser_assemble_text_line(ms, toks, ms.text_cursor, g))

assemble_data_line(ms, toks) == Parser_assemble_data_line(ms, toks, ms.data_cursor)

\* ------------------------------------------------------------------------
\* The interactive session: Interpreter::repl over a Machine.
\* ------------------------------------------------------------------------
\* The lines a user may type, as lex_core tokenises them.
Lines ==
    << <<TkId("li"), TkReg("$v0"), TkComma, TkInt(<<"1", "0">>), TkEOL>>,
       <<TkId("syscall"), TkEOL>>,
       <<TkId("bne"), TkReg("$zero"), TkComma, TkReg("$zero"), TkComma,
         TkId("end"), TkEOL>>,
       <<TkId("end"), TkColon, TkId("addi"), TkReg("$t0"), TkComma,
         TkReg("$zero"), TkComma, TkInt(<<"7">>), TkEOL>>,
       <<TkId("end"), TkColon, TkId("bogus"), TkEOL>>,
       <<TkId("lui"), TkReg("$t0"), TkComma, TkReg("$zero"), TkComma,
         TkInt(<<"0", "x", "4", "0">>), TkEOL>>,
       <<TkId("sw"), TkReg("$zero"), TkComma, TkInt(<<"0">>), Tk("LPAREN", "("),
         TkReg("$t0"), Tk("RPAREN", ")"), TkEOL>>,
       <<TkId("end"), TkColon, TkId(".word"), TkInt(<<"1">>), TkEOL>>,
       <<TkId("j"), TkId("end"), TkEOL>>,
       <<TkId("li"), TkReg("$t0"), TkEOL>>,
       <<TkId("la"), TkReg("$t0"), TkComma, TkId("end"), TkEOL>>,
       <<TkId("blt"), TkReg("$zero"), TkComma, TkReg("$sp"), TkComma,
         TkId("end"), TkEOL>>,
       <<TkId("beq"), TkReg("$zero"), TkComma, TkReg("$zero"), TkComma,
         TkId("end"), TkEOL>>,
       <<TkId("jal"), TkId("end"), TkEOL>>,
       <<TkId("bgtz"), TkReg("$sp"), TkComma, TkId("end"), TkEOL>>,
       <<TkId("mfhi"), TkReg("$t0"), TkEOL>>,
       <<TkId("mult"), TkReg("$t0"), TkComma, TkReg("$t1"), TkEOL>>,
       <<TkId("addi"), TkReg("$t0"), TkComma, TkReg("$zero"), TkComma,
         TkInt(<<"9", "9">>), TkEOL>>,
       <<TkId("blt"), TkReg("$t0"), TkComma, TkReg("$t1"), TkComma,
         TkId("end"), TkEOL>>,
       <<TkId("ble"), TkReg("$t0"), TkComma, TkReg("$t1"), TkComma,
         TkId("end"), TkEOL>>,
       <<TkId("bgt"), TkReg("$t0"), TkComma, TkReg("$t1"), TkComma,
         TkId("end"), TkEOL>>,
       <<TkId("bge"), TkReg("$t0"), TkComma, TkReg("$t1"), TkComma,
         TkId("end"), TkEOL>>,
       <<TkId("abs"), TkReg("$t2"), TkComma, TkReg("$t0"), TkEOL>> >>

LineIds == 1..SessionLines

\* what a read past the end of the token vector may yield
Garbage == {TkEOL, TkInt(<<"7">>)}

\* what a step takes from outside: the console's answer to the read
\* syscalls, and whether an overflowing signed operation (the division of
\* INT32_MIN by -1, the int32_t addition of addiu) wraps (or faults)
ConsoleInputs == {[int |-> 0, ch |-> 0, str |-> <<>>, wrap |-> w] : w \in BOOLEAN}

VARIABLES
    mem, regs, hi, lo, pc, halted,
    text_cursor, data_cursor, in_text_mode, labels,
    branch_fixups, jump_fixups, la_fixups_,
    program_, at, old_text_cursor, steps,
    lexer

vars == <<mem, regs, hi, lo, pc, halted, text_cursor, data_cursor, in_text_mode,
          labels, branch_fixups, jump_fixups, la_fixups_, program_, at,
          old_text_cursor, steps, lexer>>

cpuVars == <<regs, hi, lo, pc, halted>>
asmVars == <<text_cursor, data_cursor, labels, branch_fixups, jump_fixups, la_fixups_>>

\* the assembler-side Machine as a record, and back
MS ==
    [mem |-> mem, text_cursor |-> text_cursor, data_cursor |-> data_cursor,
     labels |-> labels, branch_fixups |-> branch_fixups,
     jump_fixups |-> jump_fixups, la_fixups_ |-> la_fixups_, err |-> ""]

SetMachine(ms) ==
    /\ mem' = ms.mem
    /\ text_cursor' = ms.text_cursor
    /\ data_cursor' = ms.data_cursor
    /\ labels' = ms.labels
    /\ branch_fixups' = ms.branch_fixups
    /\ jump_fixups' = ms.jump_fixups
    /\ la_fixups_' = ms.la_fixups_

\* the CPU as a record, and back
CPUState ==
    [regs |-> regs, hi |-> hi, lo |-> lo, pc |-> pc, halted |-> halted,
     mem |-> mem, err |-> ""]

SetCPU(c) ==
    /\ regs' = c.regs
    /\ hi' = c.hi
    /\ lo' = c.lo
    /\ pc' = c.pc
    /\ halted' = c.halted
    /\ mem' = c.mem

\* Machine::reset on the assembler side
ResetMS ==
    [mem |-> EmptyMem, text_cursor |-> TEXT_BASE, data_cursor |-> DATA_BASE,
     labels |-> NoLabels, branch_fixups |-> <<>>, jump_fixups |-> <<>>,
     la_fixups_ |-> <<>>, err |-> ""]

\* a reset that leaves $sp at 0
ResetCPURegs_without_sp == ResetRegs
\* Machine::reset on the CPU side: halted is left as it is
ResetCPURegs == writeU(ResetRegs, 29, STACK_INIT)

\* Lexer::Lexer(): state_(DEFAULT), and no line is being lexed; s, i, start
\* and toks are the arguments and locals of lex_core
LexerIdle ==
    [phase |-> "idle", state_ |-> "DEFAULT", s |-> <<>>, i |-> 0, start |-> 0,
     toks |-> <<>>]

Init ==
    /\ mem = EmptyMem
    /\ text_cursor = TEXT_BASE
    /\ data_cursor = DATA_BASE
    /\ labels = NoLabels
    /\ branch_fixups = <<>>
    /\ jump_fixups = <<>>
    /\ la_fixups_ = <<>>
    /\ regs = ResetCPURegs
    /\ hi = 0
    /\ lo = 0
    /\ pc = TEXT_BASE
    /\ halted = FALSE
    /\ in_text_mode = TRUE
    /\ program_ = <<>>
    /\ at = "prompt"
    /\ old_text_cursor = 0
    /\ steps = 0
    /\ lexer = LexerIdle

\* quit = machine.cpu.halted, at the end of an assembly line's processing
AfterLine(h) == IF h THEN "exited" ELSE "prompt"

\* a history entry is a SourceLine [text, in_text, pc_before, pc_after]
record_source_line_text(l, pc_before, ms) ==
    Append(program_, [text |-> l, in_text |-> TRUE, pc_before |-> pc_before,
                      pc_after |-> ms.text_cursor])

record_source_line_data(l, pc_before, ms) ==
    Append(program_, [text |-> l, in_text |-> FALSE, pc_before |-> pc_before,
                      pc_after |-> ms.data_cursor])

\* Interpreter::save_program: the lines of the file it writes, one per history
\* entry.  A line of a file is an assembly line (dir = "") or a segment
\* directive
save_program(prog) == [i \in 1..Len(prog) |-> [dir |-> "", line |-> prog[i].text]]

\* Interpreter::load_file, its choice of segment: the mode each assembly line
\* of the file, from line i on, is assembled in
RECURSIVE load_file(_, _, _)
load_file(file, i, in_text) ==
    IF i > Len(file) THEN <<>>
    ELSE IF file[i].dir = ".text" THEN load_file(file, i + 1, TRUE)
    ELSE IF file[i].dir = ".data" THEN load_file(file, i + 1, FALSE)
    ELSE <<in_text>> \o load_file(file, i + 1, in_text)

\* Interpreter::rebuild_from_program after machine.reset(): the loop over the
\* history from entry i; an exception ends it with ms.err set
RECURSIVE RebuildFrom(_, _, _, _, _, _), RebuildText(_, _, _, _, _)
RebuildFrom(ms, itm, prog, i, g, ub) ==
    IF i > Len(prog) \/ ms.err # ""
    THEN [ms |-> ms, in_text_mode |-> itm, ub |-> ub]
    ELSE IF prog[i].in_text
    THEN RebuildText(assemble_text_line(ms, Lines[prog[i].text], g), prog, i, g, ub)
    ELSE RebuildFrom(assemble_data_line(ms, Lines[prog[i].text]), FALSE,
                     prog, i + 1, g, ub)

RebuildText(r, prog, i, g, ub) == RebuildFrom(r.ms, TRUE, prog, i + 1, g, ub \/ r.ub)

rebuild_from_program(prog, g) == RebuildFrom(ResetMS, TRUE, prog, 1, g, FALSE)

\* what a line's assembly may come to: its result for each thing a read past
\* the end of the token vector may yield, and, when there is such a read, a
\* crash
OutcomesOf(rs) ==
    {[crash |-> FALSE, r |-> r] : r \in rs}
        \cup {[crash |-> TRUE, r |-> r] : r \in {x \in rs : x.ub}}

\* the rest of a text line's processing, o being what its assembly came to:
\* record the line, then enter the step loop (or report the pause); the catch
\* block rolls the text cursor back
TextLineDone(l, o) ==
    IF o.crash
    THEN /\ at' = "crashed"
         /\ UNCHANGED <<mem, cpuVars, asmVars, in_text_mode, program_,
                        old_text_cursor, steps>>
    ELSE IF o.r.ms.err # ""
    THEN /\ SetMachine([o.r.ms EXCEPT !.text_cursor = text_cursor])
         /\ at' = AfterLine(halted)
         /\ UNCHANGED <<cpuVars, in_text_mode, program_, old_text_cursor, steps>>
    ELSE /\ SetMachine(o.r.ms)
         /\ program_' = record_source_line_text(l, text_cursor, o.r.ms)
         /\ IF ~has_unresolved_fixups(o.r.ms) /\ ULT(pc, o.r.ms.text_cursor)
            THEN /\ at' = "exec"
                 /\ old_text_cursor' = text_cursor
            ELSE /\ at' = AfterLine(halted)
                 /\ UNCHANGED old_text_cursor
         /\ UNCHANGED <<cpuVars, in_text_mode, steps>>

\* a text-mode assembly line
TextLineB(l, bound) ==
    /\ at = "prompt"
    /\ in_text_mode
    /\ Len(program_) < bound
    /\ \E o \in OutcomesOf({assemble_text_line(MS, Lines[l], g) : g \in Garbage}) :
            TextLineDone(l, o)
    /\ UNCHANGED lexer

TextLine(l) == TextLineB(l, MaxProgram)

\* one iteration of the per-line loop  while (pc < text_cursor) cpu.step();
\* c is the CPU after the step, and a trap lands in the catch block
ExecStepDone(c) ==
    IF c.err = SIGFPE
    THEN /\ at' = "crashed"
         /\ UNCHANGED <<mem, cpuVars, text_cursor, old_text_cursor>>
    ELSE /\ SetCPU(c)
         /\ IF c.err # ""
            THEN /\ text_cursor' = old_text_cursor
                 /\ at' = AfterLine(c.halted)
                 /\ old_text_cursor' = 0
            ELSE IF ULT(c.pc, text_cursor)
            THEN /\ at' = "exec"
                 /\ UNCHANGED <<text_cursor, old_text_cursor>>
            ELSE /\ at' = AfterLine(c.halted)
                 /\ old_text_cursor' = 0
                 /\ UNCHANGED text_cursor

ExecStep ==
    /\ at = "exec"
    /\ \E inp \in ConsoleInputs : ExecStepDone(step(CPUState, inp))
    /\ UNCHANGED <<data_cursor, labels, branch_fixups, jump_fixups, la_fixups_,
                   in_text_mode, program_, steps, lexer>>

\* a data-mode assembly line, r being the machine after its assembly
DataLineDone(l, r) ==
    IF r.err # ""
    THEN /\ SetMachine([r EXCEPT !.data_cursor = data_cursor])
         /\ UNCHANGED program_
    ELSE /\ SetMachine(r)
         /\ program_' = record_source_line_data(l, data_cursor, r)

DataLine(l) ==
    /\ at = "prompt"
    /\ ~in_text_mode
    /\ Len(program_) < MaxProgram
    /\ DataLineDone(l, assemble_data_line(MS, Lines[l]))
    /\ at' = AfterLine(halted)
    /\ UNCHANGED <<cpuVars, in_text_mode, old_text_cursor, steps, lexer>>

\* the segment switches .text and .data
SegText ==
    /\ at = "prompt"
    /\ in_text_mode' = TRUE
    /\ UNCHANGED <<mem, cpuVars, asmVars, program_, at, old_text_cursor, steps,
                   lexer>>

SegData ==
    /\ at = "prompt"
    /\ in_text_mode' = FALSE
    /\ UNCHANGED <<mem, cpuVars, asmVars, program_, at, old_text_cursor, steps,
                   lexer>>

\* the reset command: Machine::reset
Reset ==
    /\ at = "prompt"
    /\ SetMachine(ResetMS)
    /\ regs' = ResetCPURegs
    /\ hi' = 0
    /\ lo' = 0
    /\ pc' = TEXT_BASE
    /\ in_text_mode' = TRUE
    /\ UNCHANGED <<halted, program_, at, old_text_cursor, steps, lexer>>

\* the run command up to its loop, rb being what the rebuild came to:
\* pc = TEXT_BASE; an exception of the rebuild is caught nowhere in repl
RunRebuilt(rb, crash) ==
    /\ SetMachine(rb.ms)
    /\ in_text_mode' = rb.in_text_mode
    /\ at' = IF rb.ms.err # "" \/ crash THEN "crashed"
             ELSE IF ULT(TEXT_BASE, rb.ms.text_cursor) /\ 0 < StepCap
             THEN "run" ELSE "prompt"

Run ==
    /\ at = "prompt"
    /\ \E o \in OutcomesOf({rebuild_from_program(program_, g) : g \in Garbage}) :
            RunRebuilt(o.r, o.crash)
    /\ regs' = ResetCPURegs
    /\ hi' = 0
    /\ lo' = 0
    /\ pc' = TEXT_BASE
    /\ steps' = 0
    /\ UNCHANGED <<halted, program_, old_text_cursor, lexer>>

\* a loop of run that no count of steps ends
RunStepDone_uncapped(c) ==
    IF c.err = SIGFPE
    THEN /\ at' = "crashed"
         /\ UNCHANGED <<mem, cpuVars, steps>>
    ELSE /\ SetCPU(c)
         /\ steps' = IF steps + 1 < StepCap THEN steps + 1 ELSE steps
         /\ at' = IF c.err = "" /\ ULT(c.pc, text_cursor) THEN "run" ELSE "prompt"

\* one iteration of run's loop, with its exit (condition false, or a trap
\* caught by run_program); c is the CPU after the step, and StepCap stands
\* for max_steps
RunStepDone(c) ==
    IF c.err = SIGFPE
    THEN /\ at' = "crashed"
         /\ UNCHANGED <<mem, cpuVars, steps>>
    ELSE /\ SetCPU(c)
         /\ IF c.err = "" /\ ULT(c.pc, text_cursor) /\ steps + 1 < StepCap
            THEN /\ at' = "run"
                 /\ steps' = steps + 1
            ELSE /\ at' = "prompt"
                 /\ steps' = 0

RunStep ==
    /\ at = "run"
    /\ \E inp \in ConsoleInputs : RunStepDone(step(CPUState, inp))
    /\ UNCHANGED <<asmVars, in_text_mode, program_, old_text_cursor, lexer>>

\* the commands that only print: help, regs, labels, data, stack
Show ==
    /\ at = "prompt"
    /\ UNCHANGED vars

\* exit / quit
Quit ==
    /\ at = "prompt"
    /\ at' = "exited"
    /\ UNCHANGED <<mem, cpuVars, asmVars, in_text_mode, program_,
                   old_text_cursor, steps, lexer>>

\* end of input: getline fails
Eof ==
    /\ at = "prompt"
    /\ at' = "exited"
    /\ UNCHANGED <<mem, cpuVars, asmVars, in_text_mode, program_,
                   old_text_cursor, steps, lexer>>

Next ==
    \/ \E l \in LineIds : TextLine(l)
    \/ ExecStep
    \/ \E l \in LineIds : DataLine(l)
    \/ SegText
    \/ SegData
    \/ Reset
    \/ Run
    \/ RunStep
    \/ Show
    \/ Quit
    \/ Eof

Spec == Init /\ [][Next]_vars

\* ------------------------------------------------------------------------
\* Sessions over four lines only (li $v0, 10 / syscall / bne ..., end /
\* end: addi ...), with a history of up to MaxHalt lines: deferred code
\* that halts.
\* ------------------------------------------------------------------------
HaltSpec ==
    Init /\ [][\/ \E l \in 1..4 : TextLineB(l, MaxHalt)
               \/ ExecStep
               \/ Run
               \/ RunStep]_vars

\* ------------------------------------------------------------------------
\* Assembler sessions: the lines with a label operand or an instruction
\* table shape of their own (bne, end: addi, j, la, blt, beq, jal, bgtz,
\* mfhi, mult, addi) in text mode, the line end: .word 1 in data mode, and the
\* step loop.
\* ------------------------------------------------------------------------
AsmSpec ==
    Init /\ [][\/ \E l \in {3, 4, 9} \cup (SessionLines + 1)..Len(Lines) : TextLine(l)
               \/ ExecStep
               \/ DataLine(8)
               \/ SegText
               \/ SegData]_vars

\* ------------------------------------------------------------------------
\* The forward-branch sessions: the lines beq $zero, $zero, end /
\* addi $t0, $zero, 99 / end: addi $t0, $zero, 7 entered in any order, the
\* segment directives, and the run command once MaxProgram lines are recorded.
\* ------------------------------------------------------------------------
BranchSpec ==
    Init /\ [][\/ \E l \in {4, 13, 18} : TextLine(l)
               \/ ExecStep
               \/ Len(program_) = MaxProgram /\ Run
               \/ RunStep
               \/ SegText
               \/ SegData]_vars

\* ------------------------------------------------------------------------
\* The sessions of a loop: end: addi $t0, $zero, 7 / j end, and syscall
\* (which traps while $v0 is 0), with reset and run.  The loop of run and the loop of a line go on
\* while their conditions hold: their steps are taken whenever they stay
\* enabled.
\* ------------------------------------------------------------------------
RunSpec ==
    /\ Init
    /\ [][\/ \E l \in {2, 4, 9} : TextLine(l)
           \/ ExecStep
           \/ Reset
           \/ Run
           \/ RunStep]_vars
    /\ WF_vars(RunStep)
    /\ WF_vars(ExecStep)

\* ------------------------------------------------------------------------
\* The CPU on its own: one word of CpuWords at TEXT_BASE, the last word of
\* the line being executed, with $t0, $t1 and $v0 holding values that earlier
\* lines left there and the word 0x80FF7F01 stored at the top of the stack,
\* where $sp points.  The step is the per-line loop's.
\* ------------------------------------------------------------------------
CpuWords ==
    {EncodeR(OP_RTYPE, 8, 9, rd, 0, f) :
        rd \in {0, 10}, f \in {FUNCT_ADD, FUNCT_ADDU, FUNCT_SUB, FUNCT_SUBU}}
    \cup {EncodeI(op, 8, rt, imm) :
            op \in {OP_ADDI, OP_ADDIU}, rt \in {0, 10}, imm \in {1, 65535}}
    \cup {EncodeI(OP_REGIMM, 8, rt, 65535) : rt \in {RT_BLTZ, RT_BGEZ}}
    \cup {EncodeI(op, 8, 0, 65535) : op \in {OP_BGTZ, OP_BLEZ}}
    \cup {EncodeR(OP_RTYPE, 8, 0, 0, 0, FUNCT_JALR),
          EncodeR(OP_RTYPE, 0, 0, 0, 0, FUNCT_SYSCALL),
          EncodeI(OP_LUI, 0, 0, 64),
          EncodeJ(OP_JAL, 1048577)}
    \cup {EncodeI(op, rs, 9, imm) :
            op \in {OP_LB, OP_LBU, OP_LH, OP_LHU, OP_LW, OP_SB, OP_SH, OP_SW},
            rs \in {8, 29}, imm \in {0, 1, 2, 65532}}

CpuInit ==
    \E w \in CpuWords : \E a, b \in {0, 1, -1, 7, INT32_MAX, INT32_MIN} :
    \E s \in {1, 5, 12} :
        /\ mem = store32(store32(EmptyMem, TEXT_BASE, w).mem,
                          STACK_INIT, W32(33023, 32513)).mem
        /\ regs = [ResetCPURegs EXCEPT ![8] = a, ![9] = b, ![2] = s]
        /\ hi = 0
        /\ lo = 0
        /\ pc = TEXT_BASE
        /\ halted = FALSE
        /\ text_cursor = Add32(TEXT_BASE, 4)
        /\ data_cursor = DATA_BASE
        /\ in_text_mode = TRUE
        /\ labels = NoLabels
        /\ branch_fixups = <<>>
        /\ jump_fixups = <<>>
        /\ la_fixups_ = <<>>
        /\ program_ = <<>>
        /\ at = "exec"
        /\ old_text_cursor = TEXT_BASE
        /\ steps = 0
        /\ lexer = LexerIdle

CpuSpec == CpuInit /\ [][ExecStep \/ Reset]_vars

\* ------------------------------------------------------------------------
\* Sessions whose text segment is nearly full: FreeWords words or fewer are
\* left, every earlier line has been executed (pc = text_cursor), and the
\* history and the memory image of the earlier lines are left out, so the
\* run command, which rebuilds from the history, is not part of them.  The
\* lines typed are those without a forward reference (a failed line keeps
\* its fixup, so such lines could be repeated without end).
\* ------------------------------------------------------------------------
FullInit ==
    \E k \in 1..FreeWords :
        /\ mem = EmptyMem
        /\ regs = ResetCPURegs
        /\ hi = 0
        /\ lo = 0
        /\ pc = TEXT_LIMIT - 4 * k
        /\ halted = FALSE
        /\ text_cursor = TEXT_LIMIT - 4 * k
        /\ data_cursor = DATA_BASE
        /\ in_text_mode = TRUE
        /\ labels = NoLabels
        /\ branch_fixups = <<>>
        /\ jump_fixups = <<>>
        /\ la_fixups_ = <<>>
        /\ program_ = <<>>
        /\ at = "prompt"
        /\ old_text_cursor = 0
        /\ steps = 0
        /\ lexer = LexerIdle

FullSpec ==
    FullInit /\ [][(\E l \in {1, 2, 4, 5, 6, 7} : TextLine(l)) \/ ExecStep \/ Reset]_vars


\* ------------------------------------------------------------------------
\* Sessions over the pseudo-instructions that expand to several words: the
\* four compare-and-branch pseudos on $t0 and $t1 and abs $t2, $t0, with
\* li $v0, 10 and end: addi ... around them, started with $t0 and $t1 holding
\* values of either sign and the extremes (as earlier li lines leave them).
\* ------------------------------------------------------------------------
PseudoSpec ==
    /\ \E a, b \in {0, 7, -7, INT32_MAX, INT32_MIN} :
        /\ mem = EmptyMem
        /\ regs = [ResetCPURegs EXCEPT ![8] = a, ![9] = b]
        /\ hi = 0
        /\ lo = 0
        /\ pc = TEXT_BASE
        /\ halted = FALSE
        /\ text_cursor = TEXT_BASE
        /\ data_cursor = DATA_BASE
        /\ in_text_mode = TRUE
        /\ labels = NoLabels
        /\ branch_fixups = <<>>
        /\ jump_fixups = <<>>
        /\ la_fixups_ = <<>>
        /\ program_ = <<>>
        /\ at = "prompt"
        /\ old_text_cursor = 0
        /\ steps = 0
        /\ lexer = LexerIdle
    /\ [][(\E l \in {1, 4, 19, 20, 21, 22, 23} : TextLine(l)) \/ ExecStep]_vars

\* ------------------------------------------------------------------------
\* The lexer on its own: lines of up to MaxLine characters, one call of
\* lex_core after another on the interpreter's one Lexer object, an
\* iteration of its loop at a time.  A line is its sequence of characters,
\* indexed from 1 (s[i] of the code is s[i + 1]); a token is its type, pos
\* and len.
\* ------------------------------------------------------------------------

\* std::getline, a character at a time: c is the next character of the line
\* read at the prompt; the Lexer object stays as the call before left it
ReadLine(c) ==
    /\ at = "prompt"
    /\ lexer.phase # "lexing"
    /\ lexer' = [phase |-> "reading", state_ |-> lexer.state_,
                 s |-> IF lexer.phase = "reading" THEN Append(lexer.s, c) ELSE <<c>>,
                 i |-> 0, start |-> 0, toks |-> <<>>]
    /\ Len(lexer'.s) <= MaxLine
    /\ UNCHANGED <<mem, cpuVars, asmVars, in_text_mode, program_, at,
                   old_text_cursor, steps>>

\* a call of lex_core that leaves the state of the call before in place
LexCall_keeps_state ==
    /\ at = "prompt"
    /\ lexer.phase # "lexing"
    /\ lexer' = [lexer EXCEPT !.phase = "lexing", !.i = 0, !.start = 0,
                              !.toks = <<>>]
    /\ UNCHANGED <<mem, cpuVars, asmVars, in_text_mode, program_, at,
                   old_text_cursor, steps>>

\* the call of lex_core on the line read (or, as the rebuild does, on the
\* line lexed before) with a fresh token vector, as assemble_text_line and
\* assemble_data_line make it, up to the loop: i = 0, state() = DEFAULT,
\* start = 0
LexCall ==
    /\ at = "prompt"
    /\ lexer.phase # "lexing"
    /\ lexer' = [lexer EXCEPT !.phase = "lexing", !.state_ = "DEFAULT", !.i = 0,
                              !.start = 0, !.toks = <<>>]
    /\ UNCHANGED <<mem, cpuVars, asmVars, in_text_mode, program_, at,
                   old_text_cursor, steps>>

\* one iteration of  while (i < n)  with the switch on state()
LexStep ==
    /\ lexer.phase = "lexing"
    /\ lexer.i < Len(lexer.s)
    /\ lexer' =
        LET s == lexer.s
            n == Len(s)
            i == lexer.i
            start == lexer.start
            ch(k) == s[k + 1]
            c == ch(i)
            push_tok(ty, b, e) ==
                Append(lexer.toks, [type |-> ty, pos |-> b, len |-> e - b])
            is_num(x) == x \in {"0", "1", "2", "3", "4", "5", "6", "7", "8", "9"}
            is_alpha(x) ==
                x \in {"a", "b", "c", "d", "e", "f", "g", "h", "i", "j", "k", "l",
                       "m", "n", "o", "p", "q", "r", "s", "t", "u", "v", "w", "x",
                       "y", "z", "A", "B", "C", "D", "E", "F", "G", "H", "I", "J",
                       "K", "L", "M", "N", "O", "P", "Q", "R", "S", "T", "U", "V",
                       "W", "X", "Y", "Z"}
            is_alphanum(x) == is_alpha(x) \/ is_num(x)
            is_ident_start(x) == is_alpha(x) \/ x = "_" \/ x = "."
            is_ident_char(x) == is_ident_start(x) \/ is_num(x)
            is_whitespace(x) == x \in {" ", "\t", "\r"}
            is_hex_digit(x) ==
                is_num(x) \/ x \in {"a", "b", "c", "d", "e", "f",
                                    "A", "B", "C", "D", "E", "F"}
            is_oct_digit(x) == x \in {"0", "1", "2", "3", "4", "5", "6", "7"}
            \* lowercase(x) == 'x': a lowercase letter is returned as it is,
            \* any other character moved up by 'a' - 'A', which yields 'x'
            \* for 'X' alone
            lowercase_is_x(x) == x \in {"x", "X"}
            \* while (i < n && P(s[i])) ++i;  from the index from
            Scan(P(_), from) ==
                CHOOSE k \in from..n :
                    /\ k = n \/ ~P(ch(k))
                    /\ \A j \in from..(k - 1) : P(ch(j))
            p == IF ch(start) = "-" THEN start + 1 ELSE start
            esc == i + (IF i + 1 < n THEN 2 ELSE 1)
            body == IF c = "\\" THEN esc ELSE i + 1
            Lexeme(ty, e) ==
                [lexer EXCEPT !.toks = push_tok(ty, start, e), !.i = e,
                              !.state_ = "DEFAULT"]
            Enter(st) == [lexer EXCEPT !.start = i, !.i = i + 1, !.state_ = st]
            Punct(ty) == [lexer EXCEPT !.toks = push_tok(ty, i, i + 1), !.i = i + 1]
        IN  CASE lexer.state_ = "DEFAULT" ->
                    IF is_whitespace(c) THEN [lexer EXCEPT !.i = i + 1]
                    ELSE IF c = "#" THEN [lexer EXCEPT !.i = n]
                    ELSE IF c = "," THEN Punct("COMMA")
                    ELSE IF c = "(" THEN Punct("LPAREN")
                    ELSE IF c = ")" THEN Punct("RPAREN")
                    ELSE IF c = ":" THEN Punct("COLON")
                    ELSE IF c = "\"" THEN Enter("IN_STRING")
                    ELSE IF c = "'" THEN Enter("IN_CHAR")
                    ELSE IF c = "$" THEN Enter("IN_REGISTER")
                    ELSE IF is_ident_start(c) THEN Enter("IN_IDENT")
                    ELSE IF is_num(c) \/ (c = "-" /\ i + 1 < n /\ is_num(ch(i + 1)))
                    THEN Enter("IN_INT")
                    ELSE Punct("ERROR")
              [] lexer.state_ = "IN_REGISTER" ->
                    IF is_alphanum(c) THEN [lexer EXCEPT !.i = i + 1]
                    ELSE Lexeme("REGISTER", i)
              [] lexer.state_ = "IN_IDENT" ->
                    IF is_ident_char(c) THEN [lexer EXCEPT !.i = i + 1]
                    ELSE Lexeme("IDENTIFIER", i)
              [] lexer.state_ = "IN_INT" ->
                    IF p + 1 < n /\ ch(p) = "0" /\ lowercase_is_x(ch(p + 1))
                    THEN Lexeme("INT", Scan(is_hex_digit, p + 2))
                    ELSE IF p < n /\ ch(p) = "0"
                    THEN Lexeme("INT", Scan(is_oct_digit, p + 1))
                    ELSE Lexeme("INT", Scan(is_num, i))
              [] lexer.state_ = "IN_CHAR" ->
                    IF body < n /\ ch(body) = "'"
                    THEN Lexeme("INT", body + 1)
                    ELSE Lexeme("ERROR", body)
              [] lexer.state_ = "IN_STRING" ->
                    IF c = "\\" THEN [lexer EXCEPT !.i = esc]
                    ELSE IF c # "\"" THEN [lexer EXCEPT !.i = i + 1]
                    ELSE Lexeme("STRING", i + 1)
    /\ UNCHANGED <<mem, cpuVars, asmVars, in_text_mode, program_, at,
                   old_text_cursor, steps>>

\* after the loop: the switch that flushes the lexeme in progress, then
\* push_tok(EOL, n, n); state() stays as the loop left it
LexFlush ==
    /\ lexer.phase = "lexing"
    /\ ~(lexer.i < Len(lexer.s))
    /\ lexer' =
        LET n == Len(lexer.s)
            flushed(ty) ==
                Append(lexer.toks, [type |-> ty, pos |-> lexer.start,
                                    len |-> lexer.i - lexer.start])
            toks == CASE lexer.state_ = "IN_IDENT" -> flushed("IDENTIFIER")
                      [] lexer.state_ = "IN_REGISTER" -> flushed("REGISTER")
                      [] lexer.state_ = "IN_INT" -> flushed("INT")
                      [] lexer.state_ = "IN_STRING" -> flushed("ERROR")
                      [] lexer.state_ = "IN_CHAR" -> flushed("ERROR")
                      [] OTHER -> lexer.toks
        IN  [lexer EXCEPT !.toks = Append(toks, [type |-> "EOL", pos |-> n,
                                                 len |-> 0]),
                          !.phase = "done"]
    /\ UNCHANGED <<mem, cpuVars, asmVars, in_text_mode, program_, at,
                   old_text_cursor, steps>>

\* every line of up to MaxLine characters over an alphabet with a character
\* of each class the lexer tells apart; the loop and the flush are straight
\* code, so they run on
LexSpec ==
    /\ Init
    /\ [][\/ \E c \in {"a", "x", "$", "0", "9", "-", "\"", "'", "\\", " ", "#", ","} :
                ReadLine(c)
           \/ LexCall
           \/ LexStep
           \/ LexFlush]_vars
    /\ WF_vars(LexStep)
    /\ WF_vars(LexFlush)


\* ------------------------------------------------------------------------
\* Properties of the REPL, the run command and the symbol table
\* ------------------------------------------------------------------------

\* C1: a text-mode line that assembles without error and leaves no fixup
\* pending has all of its emitted words executed before the next prompt: the
\* step loop is entered, with cpu.pc at or below the line's first emitted
\* address (the text cursor before the line).
AcceptedLineIsExecuted ==
    [][(/\ at = "prompt"
        /\ in_text_mode
        /\ Len(program_') = Len(program_) + 1
        /\ text_cursor' # text_cursor
        /\ branch_fixups' = <<>>
        /\ jump_fixups' = <<>>
        /\ la_fixups_' = <<>>)
       => (at' = "exec" /\ ~ULT(text_cursor, pc))]_vars

\* C2: when a step of the per-line loop traps, the text cursor is rolled back
\* to its value before the line and the PC is not past it: at the next prompt
\* cpu.pc <= text_cursor.
TrapLeavesPcWithinCursor ==
    [][(at = "exec" /\ \E inp \in ConsoleInputs : step(CPUState, inp).err # "")
       => (text_cursor' = old_text_cursor /\ ~ULT(text_cursor', pc'))]_vars

\* C3: in line processing the CPU is stepped only while no fixup is pending;
\* a line that leaves a fixup pending executes nothing (registers, HI/LO, PC
\* and memory outside the text segment as they were); and the line that
\* defines the last pending label enters the step loop with the PC at or
\* below every deferred word.
DeferredUntilLabelsKnown ==
    /\ [](at = "exec" => ~has_unresolved_fixups(MS))
    /\ [][(/\ at = "prompt"
           /\ Len(program_') = Len(program_) + 1
           /\ ~(branch_fixups' = <<>> /\ jump_fixups' = <<>> /\ la_fixups_' = <<>>))
          => (/\ at' = "prompt"
              /\ UNCHANGED cpuVars
              /\ \A a \in (DOMAIN mem) \cup (DOMAIN mem') :
                    is_text(a) \/ load8(mem', a) = load8(mem, a))]_vars
    /\ [][(/\ at = "prompt"
           /\ at' \in {"prompt", "exec", "exited"}
           /\ has_unresolved_fixups(MS)
           /\ branch_fixups' = <<>> /\ jump_fixups' = <<>> /\ la_fixups_' = <<>>
           /\ \E n \in DOMAIN labels' : n \notin DOMAIN labels)
          => (/\ at' = "exec"
              /\ \A i \in DOMAIN branch_fixups : ~ULT(branch_fixups[i].instr_addr, pc)
              /\ \A i \in DOMAIN jump_fixups : ~ULT(jump_fixups[i].instr_addr, pc)
              /\ \A i \in DOMAIN la_fixups_ : ~ULT(la_fixups_[i].instr_addr, pc))]_vars

\* C4: the run command steps no instruction while a fixup is unresolved after
\* the rebuild, so it never executes a placeholder word.
RunWaitsForFixups == at = "run" => ~has_unresolved_fixups(MS)

\* C5: the step that sets halted is the last of its step loop, in the
\* per-line loop and in run, also when pc < text_cursor after it.
HaltedEndsStepLoop ==
    [][(at \in {"exec", "run"} /\ ~halted /\ halted') => at' \notin {"exec", "run"}]_vars

\* C6: once halted is true the REPL reads no further input line: there is no
\* prompt with halted set.
HaltedEndsSession == at = "prompt" => ~halted

\* C7: at every prompt no label bound in the symbol table is referenced by a
\* pending BranchFixup, JumpFixup or LaFixup.
NoFixupOnBoundLabel ==
    at = "prompt" =>
        /\ \A i \in DOMAIN branch_fixups : ~has_label(MS, branch_fixups[i].label)
        /\ \A i \in DOMAIN jump_fixups : ~has_label(MS, jump_fixups[i].label)
        /\ \A i \in DOMAIN la_fixups_ : ~has_label(MS, la_fixups_[i].label)

\* C8: at every prompt each unresolved fixup's instr_addr is 4-byte aligned
\* and in [TEXT_BASE, text_cursor), and the word there is a placeholder: the
\* fixup's opcode with zero offset/target bits (for a LaFixup, LUI and then
\* ORI with zero immediates).
FixupsPointAtPlaceholders ==
    at = "prompt" =>
        /\ \A i \in DOMAIN branch_fixups :
              /\ branch_fixups[i].instr_addr % 4 = 0
              /\ ~ULT(branch_fixups[i].instr_addr, TEXT_BASE)
              /\ ULT(branch_fixups[i].instr_addr, text_cursor)
              /\ FieldOpcode(load32(mem, branch_fixups[i].instr_addr).val)
                    = branch_fixups[i].opcode
              /\ FieldImm(load32(mem, branch_fixups[i].instr_addr).val) = 0
        /\ \A i \in DOMAIN jump_fixups :
              /\ jump_fixups[i].instr_addr % 4 = 0
              /\ ~ULT(jump_fixups[i].instr_addr, TEXT_BASE)
              /\ ULT(jump_fixups[i].instr_addr, text_cursor)
              /\ FieldOpcode(load32(mem, jump_fixups[i].instr_addr).val)
                    = jump_fixups[i].opcode
              /\ FieldTarget(load32(mem, jump_fixups[i].instr_addr).val) = 0
        /\ \A i \in DOMAIN la_fixups_ :
              /\ la_fixups_[i].instr_addr % 4 = 0
              /\ ~ULT(la_fixups_[i].instr_addr, TEXT_BASE)
              /\ ULT(la_fixups_[i].instr_addr, text_cursor)
              /\ load32(mem, la_fixups_[i].instr_addr).val
                    = EncodeI(OP_LUI, 0, la_fixups_[i].rt, 0)
              /\ FieldOpcode(load32(mem, Add32(la_fixups_[i].instr_addr, 4)).val) = OP_ORI
              /\ FieldImm(load32(mem, Add32(la_fixups_[i].instr_addr, 4)).val) = 0

\* C9: define_label on a bound name throws "Label redefined" and leaves the
\* binding, the fixup lists and memory as they were, whatever the address;
\* and a bound label loses or changes its address only in a step that goes
\* through Machine::reset (the reset command, or the rebuild of run).
LabelBindingMonotonic ==
    /\ [](\A n \in DOMAIN labels :
            \A a \in {text_cursor, data_cursor, TEXT_BASE, DATA_BASE} :
                define_label(MS, n, a) = [MS EXCEPT !.err = "Label redefined: " \o n])
    /\ [][(\E n \in DOMAIN labels : n \notin DOMAIN labels' \/ labels'[n] # labels[n])
          => (Reset \/ Run)]_vars

\* a prompt in text mode where `end` is bound to an address other than the
\* text cursor, words are in memory, and a further line can be entered whose
\* leading `end:` is thrown back by define_label
RedefinitionAttempted ==
    /\ at = "prompt"
    /\ in_text_mode
    /\ Len(program_) < MaxProgram
    /\ has_label(MS, "end")
    /\ labels["end"] # text_cursor
    /\ mem # EmptyMem
    /\ define_label(MS, "end", text_cursor).err = "Label redefined: end"

\* C10: a text-mode line that fails to assemble leaves the text cursor, the
\* symbol table, the fixup lists and the history as they were before it.
FailedLineLeavesNoTrace ==
    [][(/\ at = "prompt"
        /\ at' # "crashed"
        /\ program_' = program_
        /\ \E l \in LineIds : TextLine(l))
       => UNCHANGED <<text_cursor, labels, branch_fixups, jump_fixups, la_fixups_,
                      program_>>]_vars


\* ------------------------------------------------------------------------
\* Properties of the text cursor, the register file and the instructions
\* ------------------------------------------------------------------------

\* C11: in every state text_cursor is a multiple of 4 with
\* TEXT_BASE <= text_cursor <= TEXT_LIMIT, and an emit_text_word that would
\* exceed TEXT_LIMIT fails, writing no memory and leaving the cursor.
TextCursorWithinSegment ==
    /\ text_cursor % 4 = 0
    /\ TEXT_BASE <= text_cursor
    /\ text_cursor <= TEXT_LIMIT
    /\ text_cursor + 4 > TEXT_LIMIT =>
            \A w \in CpuWords :
                /\ emit_text_word(MS, w).err # ""
                /\ emit_text_word(MS, w).mem = mem
                /\ emit_text_word(MS, w).text_cursor = text_cursor

\* a line filled the text segment: the next emit would exceed TEXT_LIMIT
TextSegmentFilled ==
    at = "prompt" /\ text_cursor = TEXT_LIMIT /\ Len(program_) > 0

\* C12: register 0 reads 0 in every state, and a step of an instruction whose
\* destination is register 0 (add, addu, sub, subu with rd = 0; addi, addiu,
\* lui with rt = 0) changes no register, whatever it computed.
ZeroRegisterReadsZero ==
    /\ [](readU(regs, 0) = 0)
    /\ [][(/\ at = "exec"
           /\ \/ /\ FieldOpcode(load32(mem, pc).val) = OP_RTYPE
                 /\ FieldFunct(load32(mem, pc).val)
                        \in {FUNCT_ADD, FUNCT_ADDU, FUNCT_SUB, FUNCT_SUBU}
                 /\ FieldRd(load32(mem, pc).val) = 0
              \/ /\ FieldOpcode(load32(mem, pc).val) \in {OP_ADDI, OP_ADDIU, OP_LUI}
                 /\ FieldRt(load32(mem, pc).val) = 0)
          => regs' = regs]_vars

\* addu $zero, $t0, $t1 with $t0 + $t1 = 8 has been executed
ZeroRegisterWritten ==
    /\ at = "prompt"
    /\ load32(mem, TEXT_BASE).val = EncodeR(OP_RTYPE, 8, 9, 0, 0, FUNCT_ADDU)
    /\ readU(regs, 8) = 1
    /\ readU(regs, 9) = 7
    /\ pc = Add32(TEXT_BASE, 4)

\* C13: at a text-mode prompt where the label end is not bound, the line
\* la $t0, end assembles without error: it emits the two placeholder words
\* lui $at, 0 and ori $t0, $at, 0 and records an la fixup at the address of
\* the lui.
LaDefersUndefinedLabel ==
    (at = "prompt" /\ in_text_mode /\ ~has_label(MS, "end")) =>
        LET r == assemble_text_line(MS, Lines[11], TkEOL).ms
        IN  /\ r.err = ""
            /\ r.text_cursor = Add32(text_cursor, 8)
            /\ load32(r.mem, text_cursor).val = EncodeI(OP_LUI, ZERO, AT, 0)
            /\ load32(r.mem, Add32(text_cursor, 4)).val = EncodeI(OP_ORI, AT, 8, 0)
            /\ \E i \in DOMAIN r.la_fixups_ : r.la_fixups_[i].instr_addr = text_cursor

\* C14: a step of addu, subu or addiu with destination $t2 never traps (the
\* loop ends at the prompt with the line's words kept) and leaves in $t2 the
\* sum or difference modulo 2^32; so addu of 0xFFFFFFFF and 1 yields 0.
UnsignedArithmeticWraps ==
    [][(/\ at = "exec"
        /\ load32(mem, pc).val \in
                {EncodeR(OP_RTYPE, 8, 9, 10, 0, FUNCT_ADDU),
                 EncodeR(OP_RTYPE, 8, 9, 10, 0, FUNCT_SUBU),
                 EncodeI(OP_ADDIU, 8, 10, 1), EncodeI(OP_ADDIU, 8, 10, 65535)})
       => (/\ at' = "prompt"
           /\ text_cursor' = text_cursor
           /\ regs' = [regs EXCEPT ![10] =
                    IF FieldOpcode(load32(mem, pc).val) = OP_ADDIU
                    THEN Add32(regs[8], SignExt16(FieldImm(load32(mem, pc).val)))
                    ELSE IF FieldFunct(load32(mem, pc).val) = FUNCT_ADDU
                    THEN Add32(regs[8], regs[9])
                    ELSE Sub32(regs[8], regs[9])])]_vars

\* C15: a step of add, sub or addi with destination $t2 traps exactly when
\* the exact signed result is outside [-2^31, 2^31 - 1] (the operands of the
\* addition have the same sign, those of the subtraction different signs, and
\* the wrapped result has not the sign of the first operand); the trap
\* changes no register, HI or LO, and otherwise $t2 receives the exact
\* result.
SignedArithmeticTraps ==
    [][(/\ at = "exec"
        /\ load32(mem, pc).val \in
                {EncodeR(OP_RTYPE, 8, 9, 10, 0, FUNCT_ADD),
                 EncodeR(OP_RTYPE, 8, 9, 10, 0, FUNCT_SUB),
                 EncodeI(OP_ADDI, 8, 10, 1), EncodeI(OP_ADDI, 8, 10, 65535)})
       => LET word == load32(mem, pc).val
              a == regs[8]
              b == IF FieldOpcode(word) = OP_ADDI THEN SignExt16(FieldImm(word))
                   ELSE regs[9]
              sub == FieldOpcode(word) = OP_RTYPE /\ FieldFunct(word) = FUNCT_SUB
              r == IF sub THEN Sub32(a, b) ELSE Add32(a, b)
              outside == /\ IF sub THEN (a >= 0) # (b >= 0) ELSE (a >= 0) = (b >= 0)
                         /\ (r >= 0) # (a >= 0)
          IN  /\ at' = "prompt"
              /\ IF outside
                 THEN /\ text_cursor' = old_text_cursor
                      /\ regs' = regs /\ hi' = hi /\ lo' = lo
                 ELSE /\ text_cursor' = text_cursor
                      /\ regs' = [regs EXCEPT ![10] = r]
                      /\ hi' = hi /\ lo' = lo]_vars

\* add $t2, $t0, $t1 with $t0 = INT32_MAX and $t1 = 1 has trapped
SignedAddTrapped ==
    /\ at = "prompt"
    /\ load32(mem, TEXT_BASE).val = EncodeR(OP_RTYPE, 8, 9, 10, 0, FUNCT_ADD)
    /\ regs[8] = INT32_MAX
    /\ regs[9] = 1
    /\ text_cursor = TEXT_BASE
    /\ pc = Add32(TEXT_BASE, 4)

\* C16: the branch lines bne $zero, $zero, end / blt $zero, $sp, end /
\* beq $zero, $zero, end, typed at a prompt with no fixup pending, against a
\* target T around the text cursor (behind it, ahead of it, at both ends of
\* the 16-bit range, misaligned, in the data segment): with T word-aligned
\* and (T - (instr_addr + 4)) / 4 in [-32768, 32767], the line assembled with
\* end bound to T and the line assembled first and patched when end is
\* defined at T leave the same memory, and the branch word leads to T;
\* otherwise both are rejected.  And a step of a beq or bne word of a session
\* whose label end is in the text segment sets pc to the label's address
\* when the condition holds and to the next word otherwise.
BranchRoundTrip ==
    /\ [](at = "prompt" /\ in_text_mode /\ ~has_unresolved_fixups(MS) =>
            \A l \in {3, 12, 13} :
            \A T \in {text_cursor - 4, text_cursor, text_cursor + 8,
                      text_cursor + 131072, text_cursor + 131076,
                      text_cursor + 131080, text_cursor - 131068,
                      text_cursor - 131072, text_cursor + 2, DATA_BASE} :
                LET instr_addr == IF l = 12 THEN text_cursor + 4 ELSE text_cursor
                    diff == T - (instr_addr + 4)
                    fits == diff % 4 = 0 /\ diff >= -131072 /\ diff <= 131068
                    eager == assemble_text_line(
                                [MS EXCEPT !.labels = [n \in {"end"} |-> T]],
                                Lines[l], TkEOL).ms
                    patched == define_label(
                                assemble_text_line([MS EXCEPT !.labels = NoLabels],
                                                   Lines[l], TkEOL).ms, "end", T)
                IN  IF fits
                    THEN /\ eager.err = ""
                         /\ patched.err = ""
                         /\ patched.mem = eager.mem
                         /\ patched.text_cursor = eager.text_cursor
                         /\ patched.branch_fixups = <<>>
                         /\ BranchTarget(instr_addr + 4,
                                FieldImm(load32(eager.mem, instr_addr).val)) = T
                    ELSE eager.err # "" /\ patched.err # "")
    /\ [][(/\ at = "exec"
           /\ has_label(MS, "end")
           /\ is_text(lookup_label(MS, "end"))
           /\ FieldOpcode(load32(mem, pc).val) \in {OP_BEQ, OP_BNE})
          => pc' = IF (regs[FieldRs(load32(mem, pc).val)]
                          = regs[FieldRt(load32(mem, pc).val)])
                      = (FieldOpcode(load32(mem, pc).val) = OP_BEQ)
                   THEN lookup_label(MS, "end")
                   ELSE Add32(pc, 4)]_vars

\* beq $zero, $zero, end was typed before end: addi ..., patched when the
\* label was defined, and has been taken
PatchedBranchTaken ==
    /\ Len(program_) = 2
    /\ program_[1].text = 13
    /\ program_[2].text = 4
    /\ at = "exec"
    /\ pc = lookup_label(MS, "end")

\* C17: the lines j end and jal end, typed at a prompt with no fixup
\* pending, against a word-aligned target T of the text segment (its first
\* and last word, behind and ahead of the cursor): the line assembled with
\* end bound to T and the line assembled first and patched when end is
\* defined at T leave the same memory, and the jump word leads to T.  And a
\* step of a j or jal word of a session whose label end is in the text
\* segment sets pc to the label's address; jal writes the address of the
\* next word to register 31 and j writes no register.
JumpRoundTrip ==
    /\ [](at = "prompt" /\ in_text_mode /\ ~has_unresolved_fixups(MS) =>
            \A l \in {9, 14} :
            \A T \in {TEXT_BASE, text_cursor - 4, text_cursor, text_cursor + 8,
                      TEXT_LIMIT - 4} :
                LET eager == assemble_text_line(
                                [MS EXCEPT !.labels = [n \in {"end"} |-> T]],
                                Lines[l], TkEOL).ms
                    patched == define_label(
                                assemble_text_line([MS EXCEPT !.labels = NoLabels],
                                                   Lines[l], TkEOL).ms, "end", T)
                IN  is_text(T) =>
                        /\ eager.err = ""
                        /\ patched.err = ""
                        /\ patched.mem = eager.mem
                        /\ patched.text_cursor = eager.text_cursor
                        /\ patched.jump_fixups = <<>>
                        /\ JumpTarget(text_cursor + 4,
                                FieldTarget(load32(eager.mem, text_cursor).val)) = T)
    /\ [][(/\ at = "exec"
           /\ has_label(MS, "end")
           /\ is_text(lookup_label(MS, "end"))
           /\ FieldOpcode(load32(mem, pc).val) \in {OP_J, OP_JAL})
          => (/\ pc' = lookup_label(MS, "end")
              /\ regs' = IF FieldOpcode(load32(mem, pc).val) = OP_JAL
                         THEN [regs EXCEPT ![31] = Add32(pc, 4)]
                         ELSE regs)]_vars

\* jal end was typed before end: addi ..., patched when the label was
\* defined, and has been executed
PatchedJalExecuted ==
    /\ Len(program_) = 2
    /\ program_[1].text = 14
    /\ program_[2].text = 4
    /\ at = "exec"
    /\ pc = lookup_label(MS, "end")
    /\ regs[31] = Add32(TEXT_BASE, 4)

\* C18: no jump word with a truncated target is ever stored: every j or jal
\* word below the text cursor that is not waiting for its label leads to the
\* address of the label end (a target at or above 0x10000000, which does not
\* fit the 26-bit field, being rejected by the assembler and by the
\* resolution of the fixup).
NoTruncatedJump ==
    \A k \in 0..MaxProgram :
        LET a == TEXT_BASE + 4 * k
            w == load32(mem, a).val
        IN  (/\ a < text_cursor
             /\ FieldOpcode(w) \in {OP_J, OP_JAL}
             /\ has_label(MS, "end")
             /\ \A i \in DOMAIN jump_fixups : jump_fixups[i].instr_addr # a)
            => JumpTarget(a + 4, FieldTarget(w)) = lookup_label(MS, "end")

\* C19: at a text-mode prompt each of the lines syscall / lui $t0, $zero, 0x40
\* / sw $zero, 0($t0) / bgtz $sp, end / mfhi $t0 / mult $t0, $t1 (shapes
\* SYSCALL, I_ARITH, I_LS, I_BRANCH1, R_HILO1, R_HILO2) assembles without
\* error to exactly one word; that of mfhi has rd = $t0 and that of mult
\* rs = $t0, rt = $t1, with the funct of the table.
EveryTableShapeAssembles ==
    (at = "prompt" /\ in_text_mode) =>
        \A l \in {2, 6, 7, 15, 16, 17} :
            LET r == assemble_text_line(MS, Lines[l], TkEOL).ms
            IN  /\ r.err = ""
                /\ r.text_cursor = Add32(text_cursor, 4)
                /\ l = 16 => load32(r.mem, text_cursor).val
                                = EncodeR(OP_RTYPE, 0, 0, 8, 0, FUNCT_MFHI)
                /\ l = 17 => load32(r.mem, text_cursor).val
                                = EncodeR(OP_RTYPE, 8, 9, 0, 0, FUNCT_MULT)

\* C20: a step of a REGIMM word (opcode 1) raises no trap (the line's words
\* are kept): with rt = 0 (bltz) it branches iff rs < 0 as a signed number,
\* with rt = 1 (bgez) iff rs >= 0, and falls through to the next word
\* otherwise.
RegimmBranches ==
    [][(/\ at = "exec"
        /\ FieldOpcode(load32(mem, pc).val) = OP_REGIMM
        /\ FieldRt(load32(mem, pc).val) \in {RT_BLTZ, RT_BGEZ})
       => (/\ at' # "crashed"
           /\ text_cursor' = text_cursor
           /\ pc' = IF (regs[FieldRs(load32(mem, pc).val)] < 0)
                        = (FieldRt(load32(mem, pc).val) = RT_BLTZ)
                    THEN BranchTarget(Add32(pc, 4), FieldImm(load32(mem, pc).val))
                    ELSE Add32(pc, 4))]_vars

\* ------------------------------------------------------------------------
\* Properties of the parser, the memory and the loads
\* ------------------------------------------------------------------------

\* C21: at a text-mode prompt a line whose operand tokens do not match the
\* mnemonic's pattern up to EOL is rejected, emits no word, and is parsed
\* without a read past the end of the token vector: li $t0 (operand
\* missing), addi $t0, $zero, 7 7 (a token after the last operand) and
\* move $t0 $t1 $t2 (registers where the comma is expected).
MismatchedLineRejected ==
    (at = "prompt" /\ in_text_mode) =>
        \A toks \in {Lines[10],
                     <<TkId("addi"), TkReg("$t0"), TkComma, TkReg("$zero"), TkComma,
                       TkInt(<<"7">>), TkInt(<<"7">>), TkEOL>>,
                     <<TkId("move"), TkReg("$t0"), TkReg("$t1"), TkReg("$t2"),
                       TkEOL>>} :
        \A g \in Garbage :
            /\ ~assemble_text_line(MS, toks, g).ub
            /\ assemble_text_line(MS, toks, g).ms.err # ""
            /\ assemble_text_line(MS, toks, g).ms.text_cursor = text_cursor
            /\ assemble_text_line(MS, toks, g).ms.mem = mem

\* C22: andi and ori accept exactly the literals whose value is in
\* 0..0xFFFF, the other I_ARITH mnemonics and the load/store offsets exactly
\* those in -32768..32767, and the shifts exactly those in 0..31; a literal
\* out of range fails the line and no word is emitted.  Each literal is paired
\* with the ranges its value is in
ImmediateRangesExact ==
    (at = "prompt" /\ in_text_mode) =>
        \A lit \in {[chars |-> <<"0", "x", "7", "F", "F", "F">>, s16 |-> TRUE, u16 |-> TRUE, sh |-> FALSE],
                     [chars |-> <<"0", "x", "8", "0", "0", "0">>, s16 |-> FALSE, u16 |-> TRUE, sh |-> FALSE],
                     [chars |-> <<"0", "x", "F", "F", "F", "F">>, s16 |-> FALSE, u16 |-> TRUE, sh |-> FALSE],
                     [chars |-> <<"0", "x", "1", "0", "0", "0", "0">>, s16 |-> FALSE, u16 |-> FALSE, sh |-> FALSE],
                     [chars |-> <<"-", "3", "2", "7", "6", "8">>, s16 |-> TRUE, u16 |-> FALSE, sh |-> FALSE],
                     [chars |-> <<"-", "3", "2", "7", "6", "9">>, s16 |-> FALSE, u16 |-> FALSE, sh |-> FALSE],
                     [chars |-> <<"-", "1">>, s16 |-> TRUE, u16 |-> FALSE, sh |-> FALSE],
                     [chars |-> <<"0">>, s16 |-> TRUE, u16 |-> TRUE, sh |-> TRUE],
                     [chars |-> <<"3", "1">>, s16 |-> TRUE, u16 |-> TRUE, sh |-> TRUE],
                     [chars |-> <<"3", "2">>, s16 |-> TRUE, u16 |-> TRUE, sh |-> FALSE],
                     \* 2^64
                     [chars |-> <<"1", "8", "4", "4", "6", "7", "4", "4", "0", "7",
                                  "3", "7", "0", "9", "5", "5", "1", "6", "1", "6">>,
                      s16 |-> FALSE, u16 |-> FALSE, sh |-> FALSE]} :
        \A ln \in {[toks |-> <<TkId("addi"), TkReg("$t0"), TkComma, TkReg("$zero"), TkComma, TkInt(lit.chars), TkEOL>>,
                     ok |-> lit.s16],
                    [toks |-> <<TkId("ori"), TkReg("$t0"), TkComma, TkReg("$t0"), TkComma, TkInt(lit.chars), TkEOL>>,
                     ok |-> lit.u16],
                    [toks |-> <<TkId("andi"), TkReg("$t0"), TkComma, TkReg("$t0"), TkComma, TkInt(lit.chars), TkEOL>>,
                     ok |-> lit.u16],
                    [toks |-> <<TkId("sll"), TkReg("$t0"), TkComma, TkReg("$t0"), TkComma, TkInt(lit.chars), TkEOL>>,
                     ok |-> lit.sh],
                    [toks |-> <<TkId("lw"), TkReg("$t0"), TkComma, TkInt(lit.chars), Tk("LPAREN", "("),
                                TkReg("$sp"), Tk("RPAREN", ")"), TkEOL>>,
                     ok |-> lit.s16]} :
            LET r == assemble_text_line(MS, ln.toks, TkEOL).ms
            IN  /\ (r.err = "") = ln.ok
                /\ r.err # "" => (r.text_cursor = text_cursor /\ r.mem = mem)

\* C23: for every real instruction line the parser accepts (shapes R3,
\* RSHIFT, I_ARITH and I_LS), the fields the CPU extracts from the emitted
\* word are the mnemonic's opcode and funct, the operand registers in the
\* slots of the shape, and the immediate modulo 2^16.  Registers and literals
\* are paired with their numbers and values
EncodeDecodeRoundTrip ==
    (at = "prompt" /\ in_text_mode) =>
        \A e \in {x \in INSTR_TABLE : x.type \in {"R3", "RSHIFT", "I_ARITH", "I_LS"}} :
        \A r \in {<<[n |-> "$t0", i |-> 8], [n |-> "$sp", i |-> 29], [n |-> "$ra", i |-> 31]>>,
                   <<[n |-> "$at", i |-> 1], [n |-> "$zero", i |-> 0], [n |-> "$t0", i |-> 8]>>} :
        \A lit \in {[chars |-> <<"7">>, v |-> 7], [chars |-> <<"-", "1">>, v |-> 65535],
                     [chars |-> <<"0", "x", "1", "F">>, v |-> 31]} :
            LET toks == IF e.type = "I_LS"
                        THEN <<TkId(e.mnemonic), TkReg(r[1].n), TkComma, TkInt(lit.chars),
                               Tk("LPAREN", "("), TkReg(r[2].n), Tk("RPAREN", ")"), TkEOL>>
                        ELSE <<TkId(e.mnemonic), TkReg(r[1].n), TkComma, TkReg(r[2].n), TkComma,
                               IF e.type = "R3" THEN TkReg(r[3].n) ELSE TkInt(lit.chars), TkEOL>>
                out == assemble_text_line(MS, toks, TkEOL).ms
                word == load32(out.mem, text_cursor).val
            IN  out.err = "" =>
                    /\ out.text_cursor = Add32(text_cursor, 4)
                    /\ FieldOpcode(word) = e.opcode
                    /\ e.type \in {"R3", "RSHIFT"} => FieldFunct(word) = e.funct
                    /\ e.type = "R3" =>
                          /\ FieldRd(word) = r[1].i /\ FieldRs(word) = r[2].i
                          /\ FieldRt(word) = r[3].i /\ FieldShamt(word) = 0
                    /\ e.type = "RSHIFT" =>
                          /\ FieldRd(word) = r[1].i /\ FieldRt(word) = r[2].i
                          /\ FieldRs(word) = 0 /\ FieldShamt(word) = lit.v
                    /\ e.type \in {"I_ARITH", "I_LS"} =>
                          /\ FieldRt(word) = r[1].i /\ FieldRs(word) = r[2].i
                          /\ FieldImm(word) = lit.v

\* `end: addi $t0, $zero, 7` was assembled as the first line: its word
\* decodes to addi with rt = 8, rs = 0 and imm = 7
AddiWordDecodes ==
    /\ text_cursor = Add32(TEXT_BASE, 4)
    /\ FieldOpcode(load32(mem, TEXT_BASE).val) = OP_ADDI
    /\ FieldRt(load32(mem, TEXT_BASE).val) = 8
    /\ FieldRs(load32(mem, TEXT_BASE).val) = 0
    /\ FieldImm(load32(mem, TEXT_BASE).val) = 7

\* C24: `li rt, imm` emits exactly one word (addi rt, $zero, imm) when imm is
\* in -32768..32767 and otherwise exactly the two words lui $at, hi and
\* ori rt, $at, lo; executing the emitted words leaves rt = imm mod 2^32.
\* Each literal is paired with whether its value is in the 16-bit signed
\* range and with its value modulo 2^32
LiLoadsImmediate ==
    (at = "prompt" /\ in_text_mode) =>
        \A lit \in {[chars |-> <<"7">>, small |-> TRUE, v |-> 7],
                     [chars |-> <<"-", "3", "2", "7", "6", "8">>, small |-> TRUE, v |-> -32768],
                     [chars |-> <<"3", "2", "7", "6", "8">>, small |-> FALSE, v |-> 32768],
                     [chars |-> <<"-", "3", "2", "7", "6", "9">>, small |-> FALSE, v |-> -32769],
                     [chars |-> <<"0", "x", "1", "2", "3", "4", "5", "6", "7", "8">>,
                      small |-> FALSE, v |-> 305419896],
                     [chars |-> <<"-", "2", "1", "4", "7", "4", "8", "3", "6", "4", "8">>,
                      small |-> FALSE, v |-> INT32_MIN],
                     \* 2^64
                     [chars |-> <<"1", "8", "4", "4", "6", "7", "4", "4", "0", "7",
                                  "3", "7", "0", "9", "5", "5", "1", "6", "1", "6">>,
                      small |-> FALSE, v |-> 0]} :
        \A inp \in ConsoleInputs :
            LET toks == <<TkId("li"), TkReg("$t0"), TkComma, TkInt(lit.chars), TkEOL>>
                out == assemble_text_line(MS, toks, TkEOL).ms
                w1 == load32(out.mem, text_cursor).val
                w2 == load32(out.mem, Add32(text_cursor, 4)).val
                c1 == execute([CPUState EXCEPT !.mem = out.mem], w1, inp)
                c2 == execute(c1, w2, inp)
            IN  out.err = "" =>
                    IF lit.small
                    THEN /\ out.text_cursor = Add32(text_cursor, 4)
                         /\ w1 = EncodeI(OP_ADDI, 0, 8, Lo16(lit.v))
                         /\ c1.err = "" /\ c1.regs[8] = lit.v
                    ELSE /\ out.text_cursor = Add32(text_cursor, 8)
                         /\ w1 = EncodeI(OP_LUI, 0, 1, Hi16(lit.v))
                         /\ w2 = EncodeI(OP_ORI, 1, 8, Lo16(lit.v))
                         /\ c2.err = "" /\ c2.regs[8] = lit.v

\* C25: for 16-bit H and L, assembling and executing `lui $t0, H` and then
\* `ori $t0, $t0, L` leaves $t0 = (H << 16) | L.  Each literal is paired with
\* its value
LuiOriBuildsWord ==
    (at = "prompt" /\ in_text_mode) =>
        \A H, L \in {[chars |-> <<"0", "x", "1", "2", "3", "4">>, v |-> 4660],
                      [chars |-> <<"0", "x", "F", "F", "F", "F">>, v |-> 65535],
                      [chars |-> <<"0">>, v |-> 0]} :
        \A inp \in ConsoleInputs :
            LET first == assemble_text_line(MS, <<TkId("lui"), TkReg("$t0"), TkComma,
                                                 TkInt(H.chars), TkEOL>>, TkEOL).ms
                c1 == IF first.err # "" THEN CPUState
                      ELSE execute([CPUState EXCEPT !.mem = first.mem],
                                   load32(first.mem, text_cursor).val, inp)
                second == assemble_text_line([first EXCEPT !.err = ""],
                                             <<TkId("ori"), TkReg("$t0"), TkComma, TkReg("$t0"),
                                               TkComma, TkInt(L.chars), TkEOL>>, TkEOL).ms
                c2 == execute([c1 EXCEPT !.mem = second.mem],
                              load32(second.mem, first.text_cursor).val, inp)
            IN  /\ first.err = "" /\ second.err = ""
                /\ c2.err = "" /\ c2.regs[8] = W32(H.v, L.v)

\* C26: on a fresh machine, after `beq $zero, $zero, end` alone (and still
\* after `addi $t0, $zero, 99`) a fixup is pending and nothing has executed;
\* after `end: addi $t0, $zero, 7`, and likewise after run, no fixup is
\* pending, the branch word holds the offset to end, the word of the
\* addi ... 99 is never the one to execute, and the session is back at the
\* prompt with $t0 = 7
ForwardBranchScenario ==
    LET entered == [i \in 1..Len(program_) |-> program_[i].text]
    IN  /\ entered \in {<<13>>, <<13, 18>>} =>
              /\ has_unresolved_fixups(MS)
              /\ at = "prompt" /\ pc = TEXT_BASE /\ regs = ResetCPURegs
        /\ entered = <<13, 18, 4>> =>
              /\ ~has_unresolved_fixups(MS)
              /\ load32(mem, TEXT_BASE).val = EncodeI(OP_BEQ, 0, 0, 1)
              /\ at \in {"exec", "run", "prompt"}
              /\ at \in {"exec", "run"} => pc \in {TEXT_BASE, Add32(TEXT_BASE, 8)}
              /\ at = "prompt" => (regs[8] = 7 /\ pc = Add32(TEXT_BASE, 12))

\* the run command has taken the patched branch over the addi ... 99
RunTookForwardBranch ==
    /\ [i \in 1..Len(program_) |-> program_[i].text] = <<13, 18, 4>>
    /\ at = "run" /\ pc = Add32(TEXT_BASE, 8) /\ regs[8] = 0

\* C27: a load8, store8, load32 or store32 with an accessed byte outside
\* text 0x00400000..0x0FFFFFFF, data 0x10000000..0x1003FFFF and stack
\* 0x10040000..0x7FFFFFFF fails and leaves the byte map as it is; a load of a
\* byte of these ranges that was never written gives 0.  (An address of
\* 0x80000000 and above is a negative number here)
MemoryBoundsChecked ==
    \A a \in {0, 4194300, 4194303, 4194304, 268435455, 268435456, 268697599,
               268697600, 2147479548, 2147479549, 2147483644, 2147483647,
               -2147483647 - 1, -4, -1} :
        LET InRanges(x) == \/ 4194304 <= x /\ x < 268435456
                           \/ 268435456 <= x /\ x < 268697600
                           \/ 268697600 <= x /\ x <= 2147483647
            Word(x) == {Add32(x, i) : i \in 0..3}
        IN  /\ ~InRanges(a) =>
                  /\ load8(mem, a).err # ""
                  /\ store8(mem, a, 255).err # "" /\ store8(mem, a, 255).mem = mem
            /\ (\E x \in Word(a) : ~InRanges(x)) =>
                  /\ load32(mem, a).err # ""
                  /\ store32(mem, a, -1).err # "" /\ store32(mem, a, -1).mem = mem
            /\ InRanges(a) =>
                  /\ load8(mem, a).err = "" /\ store8(mem, a, 255).err = ""
                  /\ a \notin DOMAIN mem => load8(mem, a).val = 0
            /\ (a % 4 = 0 /\ \A x \in Word(a) : InRanges(x)) =>
                  /\ load32(mem, a).err = "" /\ store32(mem, a, -1).err = ""
                  /\ Word(a) \cap DOMAIN mem = {} => load32(mem, a).val = 0

\* a sw to 0xFFFFFFFF + offset has trapped: the line is rolled back and the
\* memory holds the instruction word and the stack word only
OutOfBoundsStoreTrapped ==
    /\ at = "prompt"
    /\ text_cursor = TEXT_BASE
    /\ FieldOpcode(load32(mem, TEXT_BASE).val) = OP_SW
    /\ FieldRs(load32(mem, TEXT_BASE).val) = 8
    /\ regs[8] = -1
    /\ DOMAIN mem = {Add32(TEXT_BASE, i) : i \in 0..3} \cup {Add32(STACK_INIT, i) : i \in 0..3}

\* C28: word access is big-endian and round-trips: after store32(a, v),
\* load32(a) is v, load8(a + i) is byte i of v from the most significant, and
\* no byte outside a .. a + 3 has changed; a load32 or store32 at an
\* unaligned address fails and changes nothing.  Each word is paired with its
\* bytes
WordAccessBigEndian ==
    \A w \in {[v |-> 305419896, b |-> <<18, 52, 86, 120>>],
               [v |-> -1, b |-> <<255, 255, 255, 255>>],
               [v |-> -2147483647 - 1, b |-> <<128, 0, 0, 0>>],
               [v |-> 1, b |-> <<0, 0, 0, 1>>]} :
        /\ \A a \in {4194304, 268435456, 268697596, 2147479548, 2147483644} :
              LET s == store32(mem, a, w.v)
              IN  /\ s.err = ""
                  /\ load32(s.mem, a) = [err |-> "", val |-> w.v]
                  /\ \A i \in 0..3 : load8(s.mem, a + i) = [err |-> "", val |-> w.b[i + 1]]
                  /\ DOMAIN s.mem = DOMAIN mem \cup {a + i : i \in 0..3}
                  /\ \A x \in DOMAIN mem \ {a + i : i \in 0..3} : s.mem[x] = mem[x]
        /\ \A a \in {4194305, 4194306, 268435459, 2147479550, 2147483647, -1} :
              /\ load32(mem, a).err # ""
              /\ store32(mem, a, w.v).err # "" /\ store32(mem, a, w.v).mem = mem

\* sw $t1, 0($sp) has stored 0xFFFFFFFF over the stack word
StoredWordInMemory ==
    /\ at = "prompt"
    /\ text_cursor = Add32(TEXT_BASE, 4)
    /\ load32(mem, TEXT_BASE).val = EncodeI(OP_SW, 29, 9, 0)
    /\ regs[9] = -1
    /\ \A i \in 0..3 : mem[STACK_INIT + i] = 255

\* C29: at addr = (rs + sign_extend(imm)) mod 2^32, lb and lh write the
\* sign-extension of the byte / big-endian half-word to rt, lbu and lhu the
\* zero-extension; lh, lhu and sh at an odd addr trap without writing any
\* register or memory byte.  (The words of CpuWords have rt = $t1)
LoadsExtend ==
    [][(/\ at = "exec"
        /\ FieldOpcode(load32(mem, pc).val) \in {OP_LB, OP_LBU, OP_LH, OP_LHU, OP_SH})
       => LET word == load32(mem, pc).val
              op == FieldOpcode(word)
              off == IF FieldImm(word) >= 32768 THEN FieldImm(word) - 65536
                     ELSE FieldImm(word)
              addr == Add32(regs[FieldRs(word)], off)
              B(x) == IF x \in DOMAIN mem THEN mem[x] ELSE 0
              half == B(addr) * 256 + B(Add32(addr, 1))
              Loaded(v) == /\ regs' = [regs EXCEPT ![9] = v]
                           /\ mem' = mem
                           /\ pc' = Add32(pc, 4)
          IN  IF op \in {OP_LH, OP_LHU, OP_SH} /\ addr % 2 = 1
              THEN /\ regs' = regs /\ mem' = mem /\ hi' = hi /\ lo' = lo
                   /\ at' = "prompt" /\ text_cursor' = old_text_cursor
              ELSE IF addr < 4194304 THEN TRUE
              ELSE CASE op = OP_LB -> Loaded(IF B(addr) >= 128 THEN B(addr) - 256 ELSE B(addr))
                     [] op = OP_LBU -> Loaded(B(addr))
                     [] op = OP_LH -> Loaded(IF half >= 32768 THEN half - 65536 ELSE half)
                     [] op = OP_LHU -> Loaded(half)
                     [] OTHER -> TRUE]_vars

\* lb $t1, 0($sp) has loaded the byte 0x80 of the stack word as 0xFFFFFF80
ByteLoadedSignExtended ==
    /\ at = "prompt"
    /\ load32(mem, TEXT_BASE).val = EncodeI(OP_LB, 29, 9, 0)
    /\ regs[9] = -128
    /\ pc = Add32(TEXT_BASE, 4)

\* C30: after a reset, from any reachable state: the memory is empty, every
\* general register is 0 except $sp = 0x7FFFEFFC, HI = LO = 0, pc and
\* text_cursor are TEXT_BASE, data_cursor is DATA_BASE, text mode is selected,
\* the symbol table is empty and no fixup is pending
ResetRestoresInitialState ==
    [][Reset =>
        /\ DOMAIN mem' = {}
        /\ \A i \in 0..31 : regs'[i] = IF i = 29 THEN 2147479548 ELSE 0
        /\ hi' = 0 /\ lo' = 0
        /\ pc' = 4194304
        /\ text_cursor' = 4194304
        /\ data_cursor' = 268435456
        /\ in_text_mode'
        /\ labels' = NoLabels
        /\ branch_fixups' = <<>> /\ jump_fixups' = <<>> /\ la_fixups_' = <<>>]_vars

\* a reset has emptied the memory of a session with a recorded text line
ResetAfterTextLine ==
    /\ at = "prompt"
    /\ Len(program_) > 0 /\ program_[1].in_text
    /\ DOMAIN mem = {}
    /\ pc = TEXT_BASE /\ text_cursor = TEXT_BASE
    /\ regs = ResetCPURegs
    /\ labels = NoLabels


\* ------------------------------------------------------------------------
\* Properties of the commands, the lexer and the pseudo-instructions
\* ------------------------------------------------------------------------

\* C31: the run command always terminates: its loop takes at most the safety
\* cap of steps (StepCap here) and stops on reaching it, even for a program
\* that loops forever
RunTerminates ==
    /\ [](at = "run" => steps < StepCap)
    /\ (at = "run") ~> (at # "run")

\* run is about to take the last step the cap allows, in the loop of
\* end: addi $t0, $zero, 7 / j end
RunAtStepCap ==
    /\ at = "run"
    /\ steps = StepCap - 1
    /\ load32(mem, Add32(TEXT_BASE, 4)).val = EncodeJ(OP_J, 1048576)

\* C32: every failure of a line or a command, run included, is caught and
\* reported and the REPL goes on to the next prompt: no exception leaves the
\* REPL loop (which would end the process)
NoExceptionEscapes == [][at = "prompt" => at' # "crashed"]_vars

\* C33: the file save writes marks every change between text mode and data
\* mode of consecutive recorded lines by a .text / .data line, so that
\* loading it (in text mode, as a session starts) assembles each line in the
\* segment it had in the session
SaveKeepsSegments ==
    /\ \A i \in 1..Len(program_) :
            program_[i].in_text # (IF i = 1 THEN TRUE ELSE program_[i - 1].in_text)
                => \E k \in 1..Len(save_program(program_)) :
                        save_program(program_)[k].dir \in {".text", ".data"}
    /\ load_file(save_program(program_), 1, TRUE)
            = [i \in 1..Len(program_) |-> program_[i].in_text]

\* C34: for every line the lexer terminates, and its token vector ends with
\* the only EOL token, at pos = n with len = 0; a lexeme in progress at the
\* end of the line is flushed as a token of its kind (identifier, register,
\* integer), an unterminated string or character literal is one ERROR token,
\* and a call starts from the same lexer state whatever the call before left
\* behind, so that the tokens depend on the line's text alone.
LexerContract ==
    /\ [](lexer.phase = "done" =>
            LET s == lexer.s
                n == Len(s)
                t == lexer.toks
                Tok(ty, b, l) == [type |-> ty, pos |-> b, len |-> l]
                Whole(ty) == t = <<Tok(ty, 0, n), Tok("EOL", n, 0)>>
            IN  /\ Len(t) >= 1
                /\ t[Len(t)] = Tok("EOL", n, 0)
                /\ \A k \in 1..(Len(t) - 1) : t[k].type # "EOL"
                /\ (n > 0 /\ \A k \in 1..n : s[k] \in {"a", "x"})
                        => Whole("IDENTIFIER")
                /\ (n > 0 /\ s[1] = "$" /\ \A k \in 2..n : s[k] \in {"a", "x", "0", "9"})
                        => Whole("REGISTER")
                /\ (n > 0 /\ s[1] = "9" /\ \A k \in 2..n : s[k] \in {"0", "9"})
                        => Whole("INT")
                /\ (n > 0 /\ s[1] = "\"" /\ \A k \in 2..n : s[k] # "\"")
                        => Whole("ERROR")
                /\ (n > 0 /\ s[1] = "'" /\ (n <= 2 \/ (n = 3 /\ s[2] = "\\")))
                        => Whole("ERROR")
                /\ s = <<"a", ",", "9">>
                        => t = <<Tok("IDENTIFIER", 0, 1), Tok("COMMA", 1, 1),
                                 Tok("INT", 2, 1), Tok("EOL", 3, 0)>>)
    /\ [][(lexer.phase # "lexing" /\ lexer'.phase = "lexing")
            => (/\ lexer'.s = lexer.s
                /\ lexer'.state_ = "DEFAULT"
                /\ lexer'.i = 0
                /\ lexer'.start = 0
                /\ lexer'.toks = <<>>)]_vars
    /\ (lexer.phase = "lexing") ~> (lexer.phase = "done")

\* an unterminated string has been flushed as one ERROR token, and the lexer
\* object is left in IN_STRING for the next call
UnterminatedStringFlushed ==
    /\ lexer.phase = "done"
    /\ lexer.state_ = "IN_STRING"
    /\ lexer.s = <<"\"", "a", "\\">>
    /\ lexer.toks = <<[type |-> "ERROR", pos |-> 0, len |-> 3],
                      [type |-> "EOL", pos |-> 3, len |-> 0]>>

\* C35: blt, bgt, ble and bge rs, rt, L (lines 19 to 22, on $t0 and $t1)
\* expand to exactly two words, slt $at, ... and then bne or beq $at, $zero;
\* when L is not yet bound the fixup recorded carries the address of the
\* second word (line address + 4); and once L is bound, executing the pair
\* from its first word leaves pc = L exactly when the signed comparison of rs
\* and rt holds, and pc = line address + 8 otherwise.
PseudoBranchPair ==
    /\ [][\A l \in 19..22 :
            (/\ at = "prompt"
             /\ Len(program_') = Len(program_) + 1
             /\ program_'[Len(program_')].text = l)
            => (/\ text_cursor' = text_cursor + 8
                /\ load32(mem', text_cursor).val
                        = IF l \in {19, 22}
                          THEN EncodeR(OP_RTYPE, 8, 9, AT, 0, FUNCT_SLT)
                          ELSE EncodeR(OP_RTYPE, 9, 8, AT, 0, FUNCT_SLT)
                /\ FieldOpcode(load32(mem', text_cursor + 4).val)
                        = IF l \in {19, 21} THEN OP_BNE ELSE OP_BEQ
                /\ FieldRs(load32(mem', text_cursor + 4).val) = AT
                /\ FieldRt(load32(mem', text_cursor + 4).val) = ZERO
                /\ IF has_label(MS, "end")
                   THEN branch_fixups' = branch_fixups
                   ELSE branch_fixups'
                            = Append(branch_fixups,
                                     [instr_addr |-> text_cursor + 4,
                                      opcode |-> IF l \in {19, 21} THEN OP_BNE
                                                 ELSE OP_BEQ,
                                      rs |-> AT, rt |-> ZERO, label |-> "end"]))]_vars
    /\ [](\A k \in 1..Len(program_) : \A inp \in ConsoleInputs :
            (/\ at = "exec"
             /\ program_[k].text \in 19..22
             /\ program_[k].pc_before = pc
             /\ FieldFunct(load32(mem, pc).val) = FUNCT_SLT
             /\ FieldOpcode(load32(mem, pc + 4).val) \in {OP_BNE, OP_BEQ}
             /\ has_label(MS, "end"))
            => LET l == program_[k].text
                   a == regs[8]
                   b == regs[9]
                   holds == CASE l = 19 -> a < b
                              [] l = 20 -> a <= b
                              [] l = 21 -> a > b
                              [] l = 22 -> a >= b
                   c == step(step(CPUState, inp), inp)
               IN  /\ c.err = ""
                   /\ c.pc = IF holds THEN lookup_label(MS, "end") ELSE pc + 8)

\* ble $t0, $t1, end, then li $v0, 10, then end: addi ...: the pair ran when
\* end was defined and, -7 <= 7 holding, went to end past the li
ForwardPseudoBranchTaken ==
    /\ at = "prompt"
    /\ Len(program_) = 3
    /\ program_[1].text = 20
    /\ program_[2].text = 1
    /\ program_[3].text = 4
    /\ regs[9] = 7
    /\ regs[AT] = 0
    /\ regs[2] = 0
    /\ regs[8] = 7
    /\ pc = text_cursor

\* C36: for every value of $t0 other than INT32_MIN, executing the three
\* words of abs $t2, $t0 (line 23: sra $at, $t0, 31; xor $t2, $t0, $at;
\* subu $t2, $t2, $at) completes without a trap and leaves $t2 = |$t0|.
AbsComputesMagnitude ==
    \A k \in 1..Len(program_) : \A inp \in ConsoleInputs :
        (/\ at = "exec"
         /\ program_[k].text = 23
         /\ program_[k].pc_before = pc
         /\ load32(mem, pc).val = EncodeR(OP_RTYPE, 0, 8, AT, 31, FUNCT_SRA)
         /\ load32(mem, pc + 4).val = EncodeR(OP_RTYPE, 8, AT, 10, 0, FUNCT_XOR)
         /\ load32(mem, pc + 8).val = EncodeR(OP_RTYPE, 10, AT, 10, 0, FUNCT_SUBU)
         /\ regs[8] # INT32_MIN)
        => LET c == step(step(step(CPUState, inp), inp), inp)
           IN  /\ c.err = ""
               /\ c.regs[10] = IF regs[8] < 0 THEN 0 - regs[8] ELSE regs[8]

\* C37: define_label is all-or-nothing: when it fails while resolving the
\* fixups of a name that was not bound (misaligned branch or jump target,
\* branch offset outside 16 bits), the name is not bound afterwards, every
\* fixup list is as it was and no text word has been patched.  Checked at
\* every prompt for the label end defined at the text cursor and at the data
\* cursor, the addresses a label line passes.
DefineLabelAllOrNothing ==
    at = "prompt" =>
        \A addr \in {text_cursor, data_cursor} :
            LET r == define_label(MS, "end", addr)
            IN  (r.err # "" /\ ~has_label(MS, "end"))
                    => (/\ ~has_label(r, "end")
                        /\ r.branch_fixups = branch_fixups
                        /\ r.jump_fixups = jump_fixups
                        /\ r.la_fixups_ = la_fixups_
                        /\ r.mem = mem)

\* C38: the history replays to the live image: at every prompt, resetting
\* the machine and assembling the history's lines again, as run does,
\* succeeds and gives the text cursor, the data cursor, the symbol table and
\* the text bytes of the live machine (also after failed lines, trapped
\* lines and reset).
HistoryReplaysToLiveImage ==
    at = "prompt" =>
        \A g \in Garbage :
            LET rb == rebuild_from_program(program_, g).ms
            IN  /\ rb.err = ""
                /\ rb.text_cursor = text_cursor
                /\ rb.data_cursor = data_cursor
                /\ rb.labels = labels
                /\ \A a \in (DOMAIN mem) \cup (DOMAIN rb.mem) :
                        is_text(a) => load8(rb.mem, a) = load8(mem, a)

\* C39: the step loop of a line always terminates: once a text line has
\* assembled and its words are being stepped, the REPL eventually comes out
\* of the loop (pc at or past the text cursor, halted, or a trap).
StepLoopTerminates == (at = "exec") ~> (at # "exec")

=============================================================================
